---------------------------- MODULE Spec2Model ----------------------------
(***************************************************************************)
(* Osmosis candle indexer: the TheGraph mapping (src/src/mapping.ts) and   *)
(* the SubQuery mapping (src/SubQuery/src/mappings/mappingHandlers.ts).    *)
(*                                                                         *)
(* Names follow the source.  Where both mappings define a function of the  *)
(* same name, the SubQuery one carries the suffix SQ.                      *)
(*                                                                         *)
(* Numbers.  An f64 / JS number is NaN, Infinity or a non-negative         *)
(* rational n/d in lowest terms whose significand fits MantissaBits bits   *)
(* (53 in the source); every f64 operation rounds its exact result to the  *)
(* nearest such value, ties to even.  A BigDecimal is an exact rational.   *)
(* A number is printed as the shortest decimal that reads back as itself.  *)
(* Amounts are never negative (the digit scanner reads digits only), so    *)
(* no negative number is modelled.                                         *)
(*                                                                         *)
(* Time.  Instants are milliseconds counted from a UTC midnight, which     *)
(* keeps them inside TLC's integers; Date field arithmetic is the same on  *)
(* every UTC day.                                                          *)
(***************************************************************************)
EXTENDS Integers, Sequences, FiniteSets, TLC

VARIABLES
    impl,        \* "graph" (mapping.ts) or "subql" (mappingHandlers.ts)
    tokens,      \* Token store: denom -> entity
    pairs,       \* Pair store: id -> entity
    swaps,       \* Swap store: id -> entity
    candles,     \* Candle store: id -> entity
    aborted,     \* the runtime stopped on a host error
    nCalls,      \* operations performed so far (bounded)
    applied,     \* history: candle id -> the trades applied, in order
    lastCall,    \* the last operation and its arguments
    lastWrites,  \* history: the store writes of the last operation, in order
    iv,          \* Time Bucketer test bench: input and results
    tasks,       \* SubQuery: the async calls started and not awaited
    evs          \* SubQuery: history of each event admitted, in order

vars == <<impl, tokens, pairs, swaps, candles, aborted, nCalls, applied,
          lastCall, lastWrites, iv, tasks, evs>>

----------------------------------------------------------------------------
(* Bounds *)

MantissaBits == 14
MaxTrades == 2
MaxEvents == 2
MaxPairCalls == 2

----------------------------------------------------------------------------
(* Arithmetic *)

RECURSIVE Pow2(_)
Pow2(k) == IF k = 0 THEN 1 ELSE 2 * Pow2(k - 1)

RECURSIVE Pow10(_)
Pow10(k) == IF k = 0 THEN 1 ELSE 10 * Pow10(k - 1)

RECURSIVE GCD(_, _)
GCD(a, b) == IF b = 0 THEN a ELSE GCD(b, a % b)

NaN == [k |-> "NaN"]
Infinity == [k |-> "Infinity"]

\* The rational n/d (d > 0) in lowest terms.
Rat(n, d) ==
    LET g == GCD(n, d)
    IN  IF n = 0 THEN [k |-> "num", n |-> 0, d |-> 1]
        ELSE [k |-> "num", n |-> n \div g, d |-> d \div g]

IsNum(x) == x.k = "num"

\* x + y of two rationals, exactly.
RatSum(x, y) ==
    LET g == GCD(x.d, y.d)
    IN  Rat(x.n * (y.d \div g) + y.n * (x.d \div g), (x.d \div g) * y.d)

\* x > y of two rationals.
RatGt(x, y) ==
    LET g == GCD(x.d, y.d)
    IN  x.n * (y.d \div g) > y.n * (x.d \div g)

\* Nearest integer to n/d, ties to even.
RoundHalfEven(n, d) ==
    LET q == n \div d
        r == n % d
    IN  IF 2 * r < d THEN q
        ELSE IF 2 * r > d THEN q + 1
        ELSE IF q % 2 = 0 THEN q ELSE q + 1

\* Significands are the integers MinSignificand .. 2 * MinSignificand - 1.
MinSignificand == Pow2(MantissaBits - 1)

\* <<n', d'>>: the value with a MantissaBits-bit significand nearest n/d.
\* The comparisons n >= 2^p * d and n < 2^(p-1) * d are made on n \div d,
\* and an even d is halved rather than n doubled, to keep the integers small.
RECURSIVE RoundSig(_, _)
RoundSig(n, d) ==
    IF n = 0 THEN <<0, 1>>
    ELSE IF n \div d >= 2 * MinSignificand
         THEN LET r == RoundSig(n, 2 * d) IN <<2 * r[1], r[2]>>
    ELSE IF n \div d < MinSignificand
         THEN LET r == IF d % 2 = 0 THEN RoundSig(n, d \div 2)
                       ELSE RoundSig(2 * n, d)
              IN  <<r[1], 2 * r[2]>>
    ELSE <<RoundHalfEven(n, d), 1>>

\* The f64 nearest the exact rational n/d.
F64(n, d) ==
    LET q == Rat(n, d)
        r == RoundSig(q.n, q.d)
    IN  Rat(r[1], r[2])

\* x / y on f64 (IEEE 754: 0/0 is NaN, x/0 is Infinity for x > 0).
F64Div(x, y) ==
    IF x = NaN \/ y = NaN THEN NaN
    ELSE IF x = Infinity THEN (IF y = Infinity THEN NaN ELSE Infinity)
    ELSE IF y = Infinity THEN Rat(0, 1)
    ELSE IF y.n = 0 THEN (IF x.n = 0 THEN NaN ELSE Infinity)
    ELSE F64(x.n * y.d, x.d * y.n)

\* x + y on f64.
F64Add(x, y) ==
    IF x = NaN \/ y = NaN THEN NaN
    ELSE IF x = Infinity \/ y = Infinity THEN Infinity
    ELSE LET z == RatSum(x, y) IN F64(z.n, z.d)

\* x * y on f64 (0 * Infinity is NaN).
F64Mul(x, y) ==
    IF x = NaN \/ y = NaN THEN NaN
    ELSE IF x = Infinity THEN (IF y.n = 0 THEN NaN ELSE Infinity)
    ELSE IF y = Infinity THEN (IF x.n = 0 THEN NaN ELSE Infinity)
    ELSE F64(x.n * y.n, x.d * y.d)

\* x > y and x < y on numbers: every comparison with NaN is false.
NumGt(x, y) ==
    IF x = NaN \/ y = NaN THEN FALSE
    ELSE IF y = Infinity THEN FALSE
    ELSE IF x = Infinity THEN TRUE
    ELSE RatGt(x, y)

NumLt(x, y) == NumGt(y, x)

\* x <= y on numbers (false when either is NaN).
NumLe(x, y) ==
    IF x = NaN \/ y = NaN THEN FALSE ELSE ~NumGt(x, y)

\* parseFloat of the decimal digits of a non-negative integer.
parseFloatInt(i) == F64(i, 1)

\* BigDecimal arithmetic is exact.
BigDecimalPlus(x, y) == RatSum(x, y)
BigDecimalTimes(x, y) == Rat(x.n * y.n, x.d * y.d)

\* floor(log10(n/d)) for n/d > 0
RECURSIVE Log10Floor(_, _)
Log10Floor(n, d) ==
    IF n >= 10 * d THEN Log10Floor(n, 10 * d) + 1
    ELSE IF n < d THEN Log10Floor(10 * n, d) - 1
    ELSE 0

\* The decimal c * 10^e as a rational.
Decimal(c, e) == IF e >= 0 THEN Rat(c * Pow10(e), 1) ELSE Rat(c, Pow10(-e))

\* The k-digit decimals just below and just above x = sn/sd * 10^e, the
\* nearer one first (on a tie the even one).
DecimalsAround(x, k) ==
    LET e == Log10Floor(x.n, x.d) - (k - 1)
        sn == IF e >= 0 THEN x.n ELSE x.n * Pow10(-e)
        sd == IF e >= 0 THEN x.d * Pow10(e) ELSE x.d
        near == RoundHalfEven(sn, sd)
        lo == sn \div sd
        far == IF near = lo THEN lo + 1 ELSE lo
    IN  <<Decimal(near, e), Decimal(far, e)>>

\* The decimal that Number.prototype.toString / f64.toString prints for a
\* finite x > 0: the one with the fewest digits that reads back as x, and
\* of those the nearest to x.
RECURSIVE ShortestDecimal(_, _)
ShortestDecimal(x, k) ==
    LET c == DecimalsAround(x, k)
    IN  IF F64(c[1].n, c[1].d) = x \/ k >= 2 * MantissaBits THEN c[1]
        ELSE IF F64(c[2].n, c[2].d) = x THEN c[2]
        ELSE ShortestDecimal(x, k + 1)

NumberToDecimal(x) == IF x.n = 0 THEN x ELSE ShortestDecimal(x, 1)

\* parseFloat(x.toString()) of a JS number.
parseFloatOfToString(x) ==
    IF IsNum(x) THEN LET c == NumberToDecimal(x) IN F64(c.n, c.d) ELSE x


----------------------------------------------------------------------------
(* Candle sizes *)

CANDLE_SIZES ==
    << [interval |-> <<"5", "m">>, timeframe |-> "minute", divisor |-> 5],
       [interval |-> <<"1", "5", "m">>, timeframe |-> "minute", divisor |-> 15],
       [interval |-> <<"3", "0", "m">>, timeframe |-> "minute", divisor |-> 30],
       [interval |-> <<"1", "h">>, timeframe |-> "hour", divisor |-> 1],
       [interval |-> <<"4", "h">>, timeframe |-> "hour", divisor |-> 4],
       [interval |-> <<"8", "h">>, timeframe |-> "hour", divisor |-> 8],
       [interval |-> <<"1", "2", "h">>, timeframe |-> "hour", divisor |-> 12],
       [interval |-> <<"1", "d">>, timeframe |-> "day", divisor |-> 1] >>

SizeSet == {CANDLE_SIZES[i] : i \in DOMAIN CANDLE_SIZES}

----------------------------------------------------------------------------
(* Date: a Date object is its time value in milliseconds *)

getUTCSeconds(ms) == (ms \div 1000) % 60
getUTCMinutes(ms) == (ms \div 60000) % 60
getUTCHours(ms) == (ms \div 3600000) % 24

\* Each setter replaces one field and keeps every other, milliseconds included.
setUTCSeconds(ms, s) == ms + (s - getUTCSeconds(ms)) * 1000
setUTCMinutes(ms, m) == ms + (m - getUTCMinutes(ms)) * 60000
setUTCHours(ms, h) == ms + (h - getUTCHours(ms)) * 3600000

\* A faulty variant of IntervalDate: the hour is kept instead of floored to
\* a multiple of the divisor.
IntervalDateHourKept(date, timeframe, divisor) ==
    IF timeframe = "minute"
    THEN LET minutes == getUTCMinutes(date)
             minutesToPreviousInterval == minutes - (minutes % divisor)
         IN  setUTCSeconds(setUTCMinutes(date, minutesToPreviousInterval), 0)
    ELSE IF timeframe = "hour"
    THEN setUTCSeconds(setUTCMinutes(date, 0), 0)
    ELSE setUTCSeconds(setUTCMinutes(setUTCHours(date, 0), 0), 0)

\* The Date fields after getInterval's setters, for both mappings.
IntervalDate(date, timeframe, divisor) ==
    IF timeframe = "minute"
    THEN LET minutes == getUTCMinutes(date)
             minutesToPreviousInterval == minutes - (minutes % divisor)
         IN  setUTCSeconds(setUTCMinutes(date, minutesToPreviousInterval), 0)
    ELSE IF timeframe = "hour"
    THEN LET hours == getUTCHours(date)
             hoursToPreviousInterval == hours - (hours % divisor)
         IN  setUTCSeconds(
                 setUTCMinutes(setUTCHours(date, hoursToPreviousInterval), 0), 0)
    ELSE setUTCSeconds(setUTCMinutes(setUTCHours(date, 0), 0), 0)

IsTimeframe(timeframe) == timeframe \in {"minute", "hour", "day"}

\* A faulty variant of getInterval: for the timeframe "day" the hour is not
\* set to 0.
getIntervalDayHourKept(timestamp, timeframe, divisor) ==
    LET date == timestamp * 1000
    IN  IF timeframe = "day"
        THEN setUTCSeconds(setUTCMinutes(date, 0), 0) \div 1000
        ELSE IF IsTimeframe(timeframe)
        THEN IntervalDate(date, timeframe, divisor) \div 1000
        ELSE 0

\* mapping.ts: timestamp is i64 seconds, the result i64 seconds (integer
\* division).
getInterval(timestamp, timeframe, divisor) ==
    LET date == timestamp * 1000
    IN  IF IsTimeframe(timeframe)
        THEN IntervalDate(date, timeframe, divisor) \div 1000
        ELSE 0

\* new Date(x) of a JS number x: the time value is x truncated to an integer.
NewDate(x) == x.n \div x.d

\* mappingHandlers.ts: timestamp is a JS number read as milliseconds, the
\* result the JS number getTime() / 1000.  An epoch time in thousandths is
\* well inside the 53-bit significand, so the quotient is kept exact.
getIntervalSQ(timestamp, timeframe, divisor) ==
    LET date == NewDate(timestamp)
    IN  IF IsTimeframe(timeframe)
        THEN Rat(IntervalDate(date, timeframe, divisor), 1000)
        ELSE Rat(0, 1)

\* Width of a resolution's bucket in seconds.
resolutionSeconds(timeframe, divisor) ==
    IF timeframe = "minute" THEN divisor * 60
    ELSE IF timeframe = "hour" THEN divisor * 3600
    ELSE 86400

----------------------------------------------------------------------------
(* Strings are sequences of one-character strings *)

USDC_DENOM ==
    <<"i", "b", "c", "/", "D", "1", "8", "9", "3", "3", "5", "C", "6", "E",
    "4", "A", "6", "8", "B", "5", "1", "3", "C", "1", "0", "A", "B", "2",
    "2", "7", "B", "F", "1", "C", "1", "D", "3", "8", "C", "7", "4", "6",
    "7", "6", "6", "2", "7", "8", "B", "A", "3", "E", "E", "B", "4", "F",
    "B", "1", "4", "1", "2", "4", "F", "1", "D", "8", "5", "8">>

ATOM_DENOM ==
    <<"i", "b", "c", "/", "2", "7", "3", "9", "4", "F", "B", "0", "9", "2",
    "D", "2", "E", "C", "C", "D", "5", "6", "1", "2", "3", "C", "7", "4",
    "F", "3", "6", "E", "4", "C", "1", "F", "9", "2", "6", "0", "0", "1",
    "C", "E", "A", "D", "A", "9", "C", "A", "9", "7", "E", "A", "6", "2",
    "2", "B", "2", "5", "F", "4", "1", "E", "5", "E", "B", "2">>

UOSMO == <<"u", "o", "s", "m", "o">>
UION == <<"u", "i", "o", "n">>

Digits == <<"0", "1", "2", "3", "4", "5", "6", "7", "8", "9">>

IsDigit(ch) == \E i \in DOMAIN Digits : Digits[i] = ch

DigitValue(ch) == (CHOOSE i \in DOMAIN Digits : Digits[i] = ch) - 1

\* data.includes(sub)
Includes(data, sub) ==
    \E i \in 1..(Len(data) - Len(sub) + 1) :
        SubSeq(data, i, i + Len(sub) - 1) = sub

\* data.substring(from, to) with 0-based bounds; a negative bound counts as 0.
Substring(data, from, to) ==
    SubSeq(data, (IF from < 0 THEN 0 ELSE from) + 1, to)

\* The decimal digits of a non-negative integer (Number/I64 toString).
RECURSIVE IntToString(_)
IntToString(i) ==
    IF i < 10 THEN <<Digits[i + 1]>>
    ELSE Append(IntToString(i \div 10), Digits[(i % 10) + 1])

\* parseInt(s, 10) / BigInt.fromString(s) of a string of digits.
RECURSIVE ParseInt(_)
ParseInt(s) ==
    IF s = <<>> THEN 0
    ELSE 10 * ParseInt(SubSeq(s, 1, Len(s) - 1)) + DigitValue(s[Len(s)])

\* A faulty variant of getDenom: "uion" is not told apart from the denoms of
\* five characters.
getDenomFiveOnly(data) ==
    LET tokenDenomLength ==
            IF Includes(data, <<"i", "b", "c">>) THEN 68 ELSE 5
    IN  Substring(data, Len(data) - tokenDenomLength, Len(data))

getDenom(data) ==
    LET tokenDenomLength ==
            IF Includes(data, <<"i", "b", "c">>) THEN 68
            ELSE IF Includes(data, UION) THEN 4
            ELSE 5
    IN  Substring(data, Len(data) - tokenDenomLength, Len(data))

\* The scanning loop of extractNumberFromString from index i on, with the
\* digits collected so far.
RECURSIVE ScanNumber(_, _, _)
ScanNumber(input, i, extractedNumber) ==
    IF i > Len(input) THEN extractedNumber
    ELSE IF IsDigit(input[i])
         THEN ScanNumber(input, i + 1, Append(extractedNumber, input[i]))
    ELSE IF extractedNumber # <<>> THEN extractedNumber
    ELSE ScanNumber(input, i + 1, extractedNumber)

extractNumberFromString(input) ==
    LET extractedNumber == ScanNumber(input, 1, <<>>)
    IN  IF extractedNumber # <<>>
        THEN IntToString(ParseInt(extractedNumber))
        ELSE <<"0">>

\* The static denom table (denoms.ts): name and symbol of the known denoms.
DENOM_NAME_MAPPING ==
    (UOSMO :> [name |-> <<"O", "s", "m", "o", "s", "i", "s">>,
               symbol |-> <<"O", "S", "M", "O">>])
    @@ (UION :> [name |-> <<"I", "o", "n">>, symbol |-> <<"I", "O", "N">>])
    @@ (ATOM_DENOM :> [name |-> <<"C", "o", "s", "m", "o", "s">>,
                       symbol |-> <<"A", "T", "O", "M">>])
    @@ (USDC_DENOM :> [name |-> <<"U", "S", "D", " ", "C", "o", "i", "n">>,
                       symbol |-> <<"U", "S", "D", "C">>])

getName(denom) ==
    IF denom \in DOMAIN DENOM_NAME_MAPPING
    THEN DENOM_NAME_MAPPING[denom].name ELSE denom

getSymbol(denom) ==
    IF denom \in DOMAIN DENOM_NAME_MAPPING
    THEN DENOM_NAME_MAPPING[denom].symbol ELSE denom

----------------------------------------------------------------------------
(* The entity store *)

\* An absent value (null, undefined): also what an empty string is to ||.
Undefined == <<>>

Has(store, id) == id \in DOMAIN store

\* entity.save(): the store holds the entity under its id.
Put(store, id, e) ==
    [x \in DOMAIN store \cup {id} |-> IF x = id THEN e ELSE store[x]]

\* a || b on strings.
OrElse(a, b) == IF a = Undefined THEN b ELSE a

Dash == <<"-">>

\* The store as one value st, threaded through the functions of a handler:
\* the four collections, the writes made so far, the candle lookups of the
\* price composition made so far, the trades applied so far to each candle,
\* and whether a host call has failed.
StoreNow ==
    [tokens |-> tokens, pairs |-> pairs, swaps |-> swaps, candles |-> candles,
     applied |-> applied, writes |-> <<>>, reads |-> <<>>, trap |-> FALSE]

Save(st, kind, id) == Append(st.writes, <<kind, id>>)

\* Candle.load(id) of the price composition: the lookup is recorded with
\* what it found and the number of writes the handler had made before it.
Load(st, id) ==
    [st EXCEPT !.reads = Append(@,
        [id |-> id, found |-> Has(st.candles, id), at |-> Len(st.writes),
         real |-> Len(SelectSeq(st.writes, LAMBDA w : w[1] = "Candle"))])]

\* data.event.getAttributeValue(key): the value, or "" when there is none.
getAttributeValue(data, key) ==
    IF key \in DOMAIN data.attributes THEN data.attributes[key] ELSE Undefined

Applied(hist, id) == IF id \in DOMAIN hist THEN hist[id] ELSE <<>>

----------------------------------------------------------------------------
(* mapping.ts (TheGraph) *)

WHITELISTED_POOLS == {<<"1">>, <<"6", "7", "8">>}
ATOM_OSMO_POOL == 1
USDC_OSMO_POOL == 678

\* new Token(id) with the constructor the README prescribes.
NewToken(id) ==
    [id |-> id, name |-> Undefined, symbol |-> Undefined, denom |-> id,
     decimals |-> <<"6">>, priceUSD |-> Undefined]

\* Returns [st, token].
createToken(st, tokensSwappedData) ==
    LET denom == getDenom(tokensSwappedData)
        token0 == IF Has(st.tokens, denom) THEN st.tokens[denom]
                  ELSE NewToken(denom)
        token1 == [token0 EXCEPT !.name = getName(token0.denom)]
        token2 == [token1 EXCEPT !.denom = denom]
        token3 == [token2 EXCEPT !.symbol = getSymbol(token2.denom)]
    IN  [st |-> [st EXCEPT !.tokens = Put(@, denom, token3),
                           !.writes = Save(st, "Token", denom)],
         token |-> token3]

NewPair(id) ==
    [id |-> id, symbol |-> Undefined, baseAsset |-> Undefined,
     quoteAsset |-> Undefined, name |-> Undefined, poolId |-> Undefined]

\* A faulty variant of createPair: an existing reverse pair is left as it is
\* and not saved again.
createPairReverseOnce(st, base, quote, poolId) ==
    LET pairId == base.denom \o Dash \o quote.denom \o Dash \o poolId
        pair0 == IF Has(st.pairs, pairId) THEN st.pairs[pairId]
                 ELSE NewPair(pairId)
        pair == [pair0 EXCEPT
                    !.symbol = base.symbol \o Dash \o quote.symbol,
                    !.baseAsset = base.denom,
                    !.quoteAsset = quote.denom,
                    !.name = base.name \o <<" ", "-", " ">> \o quote.name,
                    !.poolId = poolId]
        st1 == [st EXCEPT !.pairs = Put(@, pairId, pair),
                          !.writes = Save(st, "Pair", pairId)]
        reverseId == quote.denom \o Dash \o base.denom
        reversePair == [NewPair(reverseId) EXCEPT
                    !.symbol = quote.symbol \o Dash \o base.symbol,
                    !.baseAsset = quote.denom,
                    !.quoteAsset = base.denom,
                    !.name = quote.name \o <<" ", "-", " ">> \o base.name]
    IN  [st |-> IF Has(st1.pairs, reverseId) THEN st1
                ELSE [st1 EXCEPT !.pairs = Put(@, reverseId, reversePair),
                                 !.writes = Save(st1, "Pair", reverseId)],
         pair |-> pair]

\* Returns [st, pair].
createPair(st, base, quote, poolId) ==
    LET pairId == base.denom \o Dash \o quote.denom \o Dash \o poolId
        pair0 == IF Has(st.pairs, pairId) THEN st.pairs[pairId]
                 ELSE NewPair(pairId)
        pair == [pair0 EXCEPT
                    !.symbol = base.symbol \o Dash \o quote.symbol,
                    !.baseAsset = base.denom,
                    !.quoteAsset = quote.denom,
                    !.name = base.name \o <<" ", "-", " ">> \o quote.name,
                    !.poolId = poolId]
        st1 == [st EXCEPT !.pairs = Put(@, pairId, pair),
                          !.writes = Save(st, "Pair", pairId)]
        reverseId == quote.denom \o Dash \o base.denom
        reverse0 == IF Has(st1.pairs, reverseId) THEN st1.pairs[reverseId]
                    ELSE NewPair(reverseId)
        reversePair == [reverse0 EXCEPT
                    !.symbol = quote.symbol \o Dash \o base.symbol,
                    !.baseAsset = quote.denom,
                    !.quoteAsset = base.denom,
                    !.name = quote.name \o <<" ", "-", " ">> \o base.name]
    IN  [st |-> [st1 EXCEPT !.pairs = Put(@, reverseId, reversePair),
                            !.writes = Save(st1, "Pair", reverseId)],
         pair |-> pair]

\* Returns [st, swap].
createSwap(st, tokenIn, tokenOut, data) ==
    LET height == data.height
        sender == getAttributeValue(data, "sender")
        poolId == getAttributeValue(data, "pool_id")
        amountIn ==
            extractNumberFromString(getAttributeValue(data, "tokens_in"))
        amountOut ==
            extractNumberFromString(getAttributeValue(data, "tokens_out"))
        swapId == IntToString(height) \o Dash \o sender
        swap == [id |-> swapId,
                 height |-> ParseInt(IntToString(height)),
                 sender |-> sender,
                 poolId |-> poolId,
                 tokenIn |-> tokenIn.denom,
                 tokenInAmount |-> ParseInt(amountIn),
                 tokenOut |-> tokenOut.denom,
                 tokenOutAmount |-> ParseInt(amountOut)]
    IN  [st |-> [st EXCEPT !.swaps = Put(@, swapId, swap),
                           !.writes = Save(st, "Swap", swapId)],
         swap |-> swap]

\* BigDecimal.fromString(x.toString()) of an f64: the host call fails on
\* "NaN" and "Infinity"; of a finite x it is the decimal printed for x.
CanBigDecimal(x) == IsNum(x)
BigDecimalFromString(x) == NumberToDecimal(x)

\* Math.pow(10, k)
MathPow10(k) == F64(Pow10(k), 1)

\* A faulty variant of saveCandle: a new candle starts with volume zero and
\* its first trade's volume is dropped.
saveCandleVolumeDropped(st, c) ==
    LET candle ==
            IF ~Has(st.candles, c.id)
            THEN [id |-> c.id, poolId |-> c.poolId, interval |-> c.interval,
                  timestamp |-> c.timestamp, base |-> c.base,
                  quote |-> c.quote, open |-> c.rate, high |-> c.rate,
                  low |-> c.rate, close |-> c.rate, volume |-> Rat(0, 1)]
            ELSE LET old == st.candles[c.id]
                 IN  [old EXCEPT
                        !.high = IF NumGt(c.rate, old.high) THEN c.rate ELSE @,
                        !.low = IF NumGt(old.low, c.rate) THEN c.rate ELSE @,
                        !.close = c.rate,
                        !.volume = RatSum(old.volume, c.volume)]
    IN  [st EXCEPT !.candles = Put(@, c.id, candle),
                   !.writes = Save(st, "Candle", c.id),
                   !.applied = Put(@, c.id,
                       Append(Applied(st.applied, c.id),
                              [rate |-> c.rate, volume |-> c.volume,
                               time |-> c.time, base |-> c.base,
                               quote |-> c.quote]))]

\* Candle.load, the create-or-update of createCandle and
\* createCandleWithRate, candle.save().  c carries the new candle's fields,
\* the rate and the volume (BigDecimal), and the block time for the history.
saveCandle(st, c) ==
    LET candle ==
            IF ~Has(st.candles, c.id)
            THEN [id |-> c.id, poolId |-> c.poolId, interval |-> c.interval,
                  timestamp |-> c.timestamp, base |-> c.base,
                  quote |-> c.quote, open |-> c.rate, high |-> c.rate,
                  low |-> c.rate, close |-> c.rate, volume |-> c.volume]
            ELSE LET old == st.candles[c.id]
                 IN  [old EXCEPT
                        !.high = IF NumGt(c.rate, old.high) THEN c.rate ELSE @,
                        !.low = IF NumLt(c.rate, old.low) THEN c.rate ELSE @,
                        !.close = c.rate,
                        !.volume = BigDecimalPlus(old.volume, c.volume)]
    IN  [st EXCEPT !.candles = Put(@, c.id, candle),
                   !.writes = Save(st, "Candle", c.id),
                   !.applied = Put(@, c.id,
                       Append(Applied(st.applied, c.id),
                              [rate |-> c.rate, volume |-> c.volume,
                               time |-> c.time, base |-> c.base,
                               quote |-> c.quote]))]

\* A faulty variant of createCandle: the rate is base amount over quote
\* amount.
createCandleInverseRate(st, swap, pair, quoteAsset, data, size) ==
    LET blockTime == data.time \div 1000
        poolId == getAttributeValue(data, "pool_id")
        baseAmount == swap.tokenInAmount
        baseDenom == pair.baseAsset
        quoteAmount == swap.tokenOutAmount
        quoteDenom == pair.quoteAsset
        quoteDecimals == OrElse(quoteAsset.decimals, <<"6">>)
        rate == F64Div(parseFloatInt(baseAmount), parseFloatInt(quoteAmount))
        volume == F64Div(parseFloatInt(quoteAmount),
                         MathPow10(ParseInt(quoteDecimals)))
        candleTime == getInterval(blockTime, size.timeframe, size.divisor)
        candleId == poolId \o Dash \o IntToString(candleTime) \o Dash
                    \o quoteDenom \o Dash \o size.interval
    IN  IF st.trap THEN st
        ELSE IF ~CanBigDecimal(rate) THEN [st EXCEPT !.trap = TRUE]
        ELSE saveCandle(st, [id |-> candleId, poolId |-> poolId,
                 interval |-> size.interval,
                 timestamp |-> ParseInt(IntToString(candleTime)),
                 base |-> baseDenom, quote |-> quoteDenom,
                 rate |-> BigDecimalFromString(rate),
                 volume |-> BigDecimalFromString(volume),
                 time |-> data.time])

\* Returns st; st.trap when BigDecimal.fromString fails on the rate.
createCandle(st, swap, pair, quoteAsset, data, size) ==
    LET blockTime == data.time \div 1000
        poolId == getAttributeValue(data, "pool_id")
        baseAmount == swap.tokenInAmount
        baseDenom == pair.baseAsset
        quoteAmount == swap.tokenOutAmount
        quoteDenom == pair.quoteAsset
        quoteDecimals == OrElse(quoteAsset.decimals, <<"6">>)
        rate == F64Div(parseFloatInt(quoteAmount), parseFloatInt(baseAmount))
        volume == F64Div(parseFloatInt(quoteAmount),
                         MathPow10(ParseInt(quoteDecimals)))
        candleTime == getInterval(blockTime, size.timeframe, size.divisor)
        candleId == poolId \o Dash \o IntToString(candleTime) \o Dash
                    \o quoteDenom \o Dash \o size.interval
    IN  IF st.trap THEN st
        ELSE IF ~CanBigDecimal(rate) THEN [st EXCEPT !.trap = TRUE]
        ELSE saveCandle(st, [id |-> candleId, poolId |-> poolId,
                 interval |-> size.interval,
                 timestamp |-> ParseInt(IntToString(candleTime)),
                 base |-> baseDenom, quote |-> quoteDenom,
                 rate |-> BigDecimalFromString(rate),
                 volume |-> BigDecimalFromString(volume),
                 time |-> data.time])

\* The loop of createCandles over sizes[i..].
RECURSIVE createCandlesFrom(_, _, _, _, _, _, _)
createCandlesFrom(st, swap, pair, quoteAsset, data, sizes, i) ==
    IF i > Len(sizes) THEN st
    ELSE createCandlesFrom(
             createCandle(st, swap, pair, quoteAsset, data, sizes[i]),
             swap, pair, quoteAsset, data, sizes, i + 1)

createCandles(st, swap, pair, quoteAsset, data, sizes) ==
    createCandlesFrom(st, swap, pair, quoteAsset, data, sizes, 1)

Calc == <<"c", "a", "l", "c", "-">>

createCandleWithRate(st, baseAssetDenom, quoteAssetDenom, rate, volume, data, size) ==
    LET blockTime == data.time \div 1000
        poolId == Calc \o baseAssetDenom \o Dash \o quoteAssetDenom
        candleTime == getInterval(blockTime, size.timeframe, size.divisor)
        candleId == Calc \o baseAssetDenom \o Dash \o IntToString(candleTime)
                    \o Dash \o quoteAssetDenom \o Dash \o size.interval
    IN  IF st.trap THEN st
        ELSE saveCandle(st, [id |-> candleId, poolId |-> poolId,
                 interval |-> size.interval,
                 timestamp |-> ParseInt(IntToString(candleTime)),
                 base |-> baseAssetDenom, quote |-> quoteAssetDenom,
                 rate |-> rate, volume |-> volume, time |-> data.time])

\* x.div(y) on BigDecimal, y not zero.
BigDecimalDiv(x, y) == Rat(x.n * y.d, x.d * y.n)

\* The loop calling createCandleWithRate for candleSizes[i..].
RECURSIVE withRateFrom(_, _, _, _, _, _, _)
withRateFrom(st, baseDenom, quoteDenom, rate, data, sizes, i) ==
    IF i > Len(sizes) THEN st
    ELSE withRateFrom(
             createCandleWithRate(st, baseDenom, quoteDenom, rate, Rat(0, 1),
                                  data, sizes[i]),
             baseDenom, quoteDenom, rate, data, sizes, i + 1)

\* A faulty variant of customCandles: the USDC-ATOM candles are not written.
customCandlesForwardOnly(st, atomPriceUSDC, data, candleSizes) ==
    LET st1 == withRateFrom(st, ATOM_DENOM, USDC_DENOM, atomPriceUSDC, data,
                            candleSizes, 1)
    IN  IF atomPriceUSDC.n = 0 THEN [st1 EXCEPT !.trap = TRUE]
        ELSE st1

\* The ATOM-USDC candles, then the USDC-ATOM candles at rate 1.0 / price;
\* the host call div fails on a zero divisor.
customCandles(st, atomPriceUSDC, data, candleSizes) ==
    LET st1 == withRateFrom(st, ATOM_DENOM, USDC_DENOM, atomPriceUSDC, data,
                            candleSizes, 1)
    IN  IF atomPriceUSDC.n = 0 THEN [st1 EXCEPT !.trap = TRUE]
        ELSE withRateFrom(st1, USDC_DENOM, ATOM_DENOM,
                          BigDecimalDiv(Rat(1, 1), atomPriceUSDC), data,
                          candleSizes, 1)

SymATOM == <<"A", "T", "O", "M">>
SymOSMO == <<"O", "S", "M", "O">>
SymUSDC == <<"U", "S", "D", "C">>
DayLabel == <<"1", "d">>

\* A faulty variant of whitelisted: when the second daily candle is missing
\* the price of the first one alone is used.
whitelistedOneLeg(st, tokenIn, tokenOut, data, candleSizes) ==
    LET poolId == getAttributeValue(data, "pool_id")
        dayCandleTime == getInterval(data.time \div 1000, "day", 1)
        day == IntToString(dayCandleTime)
        atomOsmo == \/ tokenIn.symbol = SymATOM /\ tokenOut.symbol = SymOSMO
                    \/ tokenIn.symbol = SymOSMO /\ tokenOut.symbol = SymATOM
        usdcOsmo == \/ tokenIn.symbol = SymUSDC /\ tokenOut.symbol = SymOSMO
                    \/ tokenIn.symbol = SymOSMO /\ tokenOut.symbol = SymUSDC
        \* first branch: `${pool_id}-${dayCandleTime}-uosmo-1d`
        idA1 == poolId \o Dash \o day \o Dash \o UOSMO \o Dash \o DayLabel
        \* `${USDC_OSMO_POOL}-${dayCandleTime}-uosmo-1d`
        idA2 == IntToString(USDC_OSMO_POOL) \o Dash \o day \o Dash \o UOSMO
                \o Dash \o DayLabel
        \* second branch: `${pool_id}-${dayCandleTime}-${USDC_DENOM}-1d`
        idB1 == poolId \o Dash \o day \o Dash \o USDC_DENOM \o Dash
                \o DayLabel
        \* `${ATOM_OSMO_POOL}}-${dayCandleTime}-uosmo-1d`
        idB2 == IntToString(ATOM_OSMO_POOL) \o <<"}">> \o Dash \o day \o Dash
                \o UOSMO \o Dash \o DayLabel
    IN  IF st.trap \/ poolId \notin WHITELISTED_POOLS THEN st
        ELSE IF atomOsmo
        THEN IF ~Has(st.candles, idA1) THEN Load(st, idA1)
             ELSE IF ~Has(st.candles, idA2)
             THEN customCandles(Load(Load(st, idA1), idA2),
                                st.candles[idA1].close, data, candleSizes)
             ELSE customCandles(Load(Load(st, idA1), idA2),
                      BigDecimalTimes(st.candles[idA1].close,
                                      st.candles[idA2].close),
                      data, candleSizes)
        ELSE IF usdcOsmo
        THEN IF ~Has(st.candles, idB1) THEN Load(st, idB1)
             ELSE IF ~Has(st.candles, idB2) THEN Load(Load(st, idB1), idB2)
             ELSE customCandles(Load(Load(st, idB1), idB2),
                      BigDecimalTimes(st.candles[idB2].close,
                                      st.candles[idB1].close),
                      data, candleSizes)
        ELSE st

\* A faulty variant of whitelisted: the pool is not checked against the
\* allow-list.
whitelistedAnyPool(st, tokenIn, tokenOut, data, candleSizes) ==
    LET poolId == getAttributeValue(data, "pool_id")
        dayCandleTime == getInterval(data.time \div 1000, "day", 1)
        day == IntToString(dayCandleTime)
        atomOsmo == \/ tokenIn.symbol = SymATOM /\ tokenOut.symbol = SymOSMO
                    \/ tokenIn.symbol = SymOSMO /\ tokenOut.symbol = SymATOM
        usdcOsmo == \/ tokenIn.symbol = SymUSDC /\ tokenOut.symbol = SymOSMO
                    \/ tokenIn.symbol = SymOSMO /\ tokenOut.symbol = SymUSDC
        \* first branch: `${pool_id}-${dayCandleTime}-uosmo-1d`
        idA1 == poolId \o Dash \o day \o Dash \o UOSMO \o Dash \o DayLabel
        \* `${USDC_OSMO_POOL}-${dayCandleTime}-uosmo-1d`
        idA2 == IntToString(USDC_OSMO_POOL) \o Dash \o day \o Dash \o UOSMO
                \o Dash \o DayLabel
        \* second branch: `${pool_id}-${dayCandleTime}-${USDC_DENOM}-1d`
        idB1 == poolId \o Dash \o day \o Dash \o USDC_DENOM \o Dash
                \o DayLabel
        \* `${ATOM_OSMO_POOL}}-${dayCandleTime}-uosmo-1d`
        idB2 == IntToString(ATOM_OSMO_POOL) \o <<"}">> \o Dash \o day \o Dash
                \o UOSMO \o Dash \o DayLabel
    IN  IF st.trap THEN st
        ELSE IF atomOsmo
        THEN IF ~Has(st.candles, idA1) THEN Load(st, idA1)
             ELSE IF ~Has(st.candles, idA2) THEN Load(Load(st, idA1), idA2)
             ELSE customCandles(Load(Load(st, idA1), idA2),
                      BigDecimalTimes(st.candles[idA1].close,
                                      st.candles[idA2].close),
                      data, candleSizes)
        ELSE IF usdcOsmo
        THEN IF ~Has(st.candles, idB1) THEN Load(st, idB1)
             ELSE IF ~Has(st.candles, idB2) THEN Load(Load(st, idB1), idB2)
             ELSE customCandles(Load(Load(st, idB1), idB2),
                      BigDecimalTimes(st.candles[idB2].close,
                                      st.candles[idB1].close),
                      data, candleSizes)
        ELSE st

\* The whitelisted-pool part of handleSwap, after createCandles.
whitelisted(st, tokenIn, tokenOut, data, candleSizes) ==
    LET poolId == getAttributeValue(data, "pool_id")
        dayCandleTime == getInterval(data.time \div 1000, "day", 1)
        day == IntToString(dayCandleTime)
        atomOsmo == \/ tokenIn.symbol = SymATOM /\ tokenOut.symbol = SymOSMO
                    \/ tokenIn.symbol = SymOSMO /\ tokenOut.symbol = SymATOM
        usdcOsmo == \/ tokenIn.symbol = SymUSDC /\ tokenOut.symbol = SymOSMO
                    \/ tokenIn.symbol = SymOSMO /\ tokenOut.symbol = SymUSDC
        \* first branch: `${pool_id}-${dayCandleTime}-uosmo-1d`
        idA1 == poolId \o Dash \o day \o Dash \o UOSMO \o Dash \o DayLabel
        \* `${USDC_OSMO_POOL}-${dayCandleTime}-uosmo-1d`
        idA2 == IntToString(USDC_OSMO_POOL) \o Dash \o day \o Dash \o UOSMO
                \o Dash \o DayLabel
        \* second branch: `${pool_id}-${dayCandleTime}-${USDC_DENOM}-1d`
        idB1 == poolId \o Dash \o day \o Dash \o USDC_DENOM \o Dash
                \o DayLabel
        \* `${ATOM_OSMO_POOL}}-${dayCandleTime}-uosmo-1d`
        idB2 == IntToString(ATOM_OSMO_POOL) \o <<"}">> \o Dash \o day \o Dash
                \o UOSMO \o Dash \o DayLabel
    IN  IF st.trap \/ poolId \notin WHITELISTED_POOLS THEN st
        ELSE IF atomOsmo
        THEN IF ~Has(st.candles, idA1) THEN Load(st, idA1)
             ELSE IF ~Has(st.candles, idA2) THEN Load(Load(st, idA1), idA2)
             ELSE customCandles(Load(Load(st, idA1), idA2),
                      BigDecimalTimes(st.candles[idA1].close,
                                      st.candles[idA2].close),
                      data, candleSizes)
        ELSE IF usdcOsmo
        THEN IF ~Has(st.candles, idB1) THEN Load(st, idB1)
             ELSE IF ~Has(st.candles, idB2) THEN Load(Load(st, idB1), idB2)
             ELSE customCandles(Load(Load(st, idB1), idB2),
                      BigDecimalTimes(st.candles[idB2].close,
                                      st.candles[idB1].close),
                      data, candleSizes)
        ELSE st

\* The one element of a singleton set: The({ f(x) : x \in {e} }) is f(e)
\* with e evaluated once.
The(S) == CHOOSE x \in S : TRUE

\* Returns st after the whole handler.  Read from the last line up: r1 and
\* r2 are the createToken calls, r3 createPair, r4 createSwap, st5 the store
\* after createCandles.
handleSwap(st, data) ==
    The({ The({ The({ The({ The({
        whitelisted(st5, r1.token, r2.token, data, CANDLE_SIZES)
      : st5 \in { createCandles(r4.st, r4.swap, r3.pair, r2.token, data,
                                CANDLE_SIZES) } })
      : r4 \in { createSwap(r3.st, r1.token, r2.token, data) } })
      : r3 \in { createPair(r2.st, r1.token, r2.token,
                            getAttributeValue(data, "pool_id")) } })
      : r2 \in { createToken(r1.st, getAttributeValue(data, "tokens_out")) } })
      : r1 \in { createToken(st, getAttributeValue(data, "tokens_in")) } })

----------------------------------------------------------------------------
(* mappingHandlers.ts (SubQuery) *)

\* The last characters "0" of a digit string removed.
RECURSIVE TrimZeros(_)
TrimZeros(s) ==
    IF s # <<>> /\ s[Len(s)] = "0" THEN TrimZeros(SubSeq(s, 1, Len(s) - 1))
    ELSE s

\* `${x}` of a JS number x that is a whole number of thousandths.
NumberToString(x) ==
    LET whole == x.n \div x.d
        milli == ((x.n % x.d) * 1000) \div x.d
        frac == <<Digits[(milli \div 100) + 1], Digits[((milli \div 10) % 10) + 1],
                  Digits[(milli % 10) + 1]>>
    IN  IF milli = 0 THEN IntToString(whole)
        ELSE IntToString(whole) \o <<".">> \o TrimZeros(frac)

\* Returns [st, pair].
createPairSQ(st, base, quote, poolId) ==
    LET pairId == base.denom \o Dash \o quote.denom \o Dash \o poolId
        pair == [id |-> pairId,
                 symbol |-> base.symbol \o Dash \o quote.symbol,
                 baseAsset |-> base.denom,
                 quoteAsset |-> quote.denom,
                 name |-> base.name \o <<" ", "-", " ">> \o quote.name,
                 poolId |-> poolId]
        st1 == [st EXCEPT !.pairs = Put(@, pairId, pair),
                          !.writes = Save(st, "Pair", pairId)]
        reverseId == quote.denom \o Dash \o base.denom
        reversePair ==
            IF ~Has(st1.pairs, reverseId)
            THEN [id |-> reverseId,
                  symbol |-> quote.symbol \o Dash \o base.symbol,
                  baseAsset |-> quote.denom,
                  quoteAsset |-> base.denom,
                  name |-> quote.name \o <<" ", "-", " ">> \o base.name,
                  poolId |-> poolId]
            ELSE [st1.pairs[reverseId] EXCEPT
                    !.symbol = quote.symbol \o Dash \o base.symbol,
                    !.baseAsset = quote.denom,
                    !.quoteAsset = base.denom,
                    !.name = quote.name \o <<" ", "-", " ">> \o base.name]
    IN  [st |-> [st1 EXCEPT !.pairs = Put(@, reverseId, reversePair),
                            !.writes = Save(st1, "Pair", reverseId)],
         pair |-> pair]

\* Candle.get, the create-or-update of createCandle and createCandleWithRate,
\* candle.save(), on JS numbers.
saveCandleSQ(st, c) ==
    LET candle ==
            IF ~Has(st.candles, c.id)
            THEN [id |-> c.id, poolId |-> c.poolId, interval |-> c.interval,
                  timestamp |-> c.timestamp, base |-> c.base,
                  quote |-> c.quote, open |-> c.rate, high |-> c.rate,
                  low |-> c.rate, close |-> c.rate, volume |-> c.volume]
            ELSE LET old == st.candles[c.id]
                 IN  [old EXCEPT
                        !.high = IF NumGt(c.rate, old.high) THEN c.rate ELSE @,
                        !.low = IF NumLt(c.rate, old.low) THEN c.rate ELSE @,
                        !.close = c.rate,
                        !.volume = F64Add(old.volume, c.volume)]
    IN  [st EXCEPT !.candles = Put(@, c.id, candle),
                   !.writes = Save(st, "Candle", c.id),
                   !.applied = Put(@, c.id,
                       Append(Applied(st.applied, c.id),
                              [rate |-> c.rate, volume |-> c.volume,
                               time |-> c.time, base |-> c.base,
                               quote |-> c.quote]))]

\* createCandle up to Candle.get: the identity, the fields of a new candle,
\* the rate and the volume.
newCandleSQ(swap, pair, quoteAsset, data, size) ==
    LET blockTime == data.time
        poolId == getAttributeValue(data, "pool_id")
        baseAmount == swap.tokenInAmount
        baseDenom == pair.baseAsset
        quoteAmount == swap.tokenOutAmount
        quoteDenom == pair.quoteAsset
        quoteDecimals == OrElse(quoteAsset.decimals, <<"6">>)
        rate == F64Div(parseFloatInt(quoteAmount), parseFloatInt(baseAmount))
        rateDecimal == parseFloatOfToString(rate)
        volume == F64Div(parseFloatInt(quoteAmount),
                         MathPow10(ParseInt(quoteDecimals)))
        candleTime == getIntervalSQ(Rat(blockTime, 1), size.timeframe,
                                    size.divisor)
        candleId == poolId \o Dash \o NumberToString(candleTime) \o Dash
                    \o quoteDenom \o Dash \o size.interval
    IN  [id |-> candleId, poolId |-> poolId,
         interval |-> size.interval, timestamp |-> candleTime,
         base |-> baseDenom, quote |-> quoteDenom,
         rate |-> rateDecimal, volume |-> parseFloatOfToString(volume),
         time |-> data.time]

\* One call of createCandle, run to its end.
createCandleSQ(st, swap, pair, quoteAsset, data, size) ==
    saveCandleSQ(st, newCandleSQ(swap, pair, quoteAsset, data, size))

\* One call of createCandleWithRate, run to its end.
createCandleWithRateSQ(st, baseAssetDenom, quoteAssetDenom, rate, volume, data, size) ==
    LET blockTime == data.time
        poolId == Calc \o baseAssetDenom \o Dash \o quoteAssetDenom
        candleTime == getIntervalSQ(Rat(blockTime, 1), size.timeframe,
                                    size.divisor)
        candleId == Calc \o baseAssetDenom \o Dash
                    \o NumberToString(candleTime) \o Dash \o quoteAssetDenom
                    \o Dash \o size.interval
    IN  saveCandleSQ(st, [id |-> candleId, poolId |-> poolId,
             interval |-> size.interval, timestamp |-> candleTime,
             base |-> baseAssetDenom, quote |-> quoteAssetDenom,
             rate |-> rate, volume |-> volume, time |-> data.time])

----------------------------------------------------------------------------
(* Time Bucketer test bench: getInterval applied to sampled instants *)

\* The instant day d, h:m:s.ms UTC, in milliseconds.
Instant(d, h, m, s, ms) == (((d * 24 + h) * 60 + m) * 60 + s) * 1000 + ms

TimeSamples ==
    { Instant(d, h, m, s, ms) :
        d \in {0, 1}, h \in {0, 3, 4, 12, 23}, m \in {0, 3, 14, 47, 59},
        s \in {0, 33}, ms \in {0, 250} }

\* The eight resolutions and one timeframe getInterval does not know.
BenchResolutions ==
    { [timeframe |-> z.timeframe, divisor |-> z.divisor] : z \in SizeSet }
    \cup { [timeframe |-> "week", divisor |-> 1] }

IvIdle == [phase |-> "idle"]

Idle ==
    /\ tokens = <<>> /\ pairs = <<>> /\ swaps = <<>> /\ candles = <<>>
    /\ aborted = FALSE /\ nCalls = 0 /\ applied = <<>>
    /\ lastCall = [op |-> "none"] /\ lastWrites = <<>>
    /\ tasks = <<>> /\ evs = <<>>

InitInterval ==
    /\ impl \in {"graph", "subql"}
    /\ Idle
    /\ \E t \in TimeSamples, r \in BenchResolutions :
          iv = [phase |-> "in", t |-> t, timeframe |-> r.timeframe,
                divisor |-> r.divisor]

UnchangedStore ==
    UNCHANGED <<impl, tokens, pairs, swaps, candles, aborted, nCalls, applied,
                lastCall, lastWrites, tasks, evs>>

\* mapping.ts:193 getInterval(blockTime, ...) with blockTime = time.seconds
BenchGetInterval ==
    /\ impl = "graph" /\ iv.phase = "in"
    /\ iv' = [iv EXCEPT !.phase = "out"] @@
             [out |-> getInterval(iv.t \div 1000, iv.timeframe, iv.divisor)]
    /\ UnchangedStore

\* mappingHandlers.ts:216 getInterval(blockTime.getTime(), ...)
BenchGetIntervalSQ ==
    /\ impl = "subql" /\ iv.phase = "in"
    /\ iv' = [iv EXCEPT !.phase = "out"] @@
             [out |-> getIntervalSQ(Rat(iv.t, 1), iv.timeframe, iv.divisor)]
    /\ UnchangedStore

\* The returned value fed back as the timestamp argument.
BenchRefeed ==
    /\ impl = "graph" /\ iv.phase = "out"
    /\ iv' = [iv EXCEPT !.phase = "refed"] @@
             [out2 |-> getInterval(iv.out, iv.timeframe, iv.divisor)]
    /\ UnchangedStore

BenchRefeedSQ ==
    /\ impl = "subql" /\ iv.phase = "out"
    /\ iv' = [iv EXCEPT !.phase = "refed"] @@
             [out2 |-> getIntervalSQ(iv.out, iv.timeframe, iv.divisor)]
    /\ UnchangedStore

NextInterval ==
    \/ BenchGetInterval
    \/ BenchGetIntervalSQ
    \/ BenchRefeed
    \/ BenchRefeedSQ

SpecInterval == InitInterval /\ [][NextInterval]_vars

----------------------------------------------------------------------------
(* TheGraph: swap events handled one after another *)

Amount(i) == IntToString(i)

\* Block times of day 1: 00:03:00.000, and 04:47:33.250 of the same day.
T1 == Instant(1, 0, 3, 0, 0)
T2 == Instant(1, 4, 47, 33, 250)

Pool1 == <<"1">>
Pool2 == <<"2">>
Pool678 == <<"6", "7", "8">>

SwapEvent(h, t, p, tin, tout) ==
    [height |-> h, time |-> t,
     attributes |-> [sender |-> <<"X">>, pool_id |-> p,
                     tokens_in |-> tin, tokens_out |-> tout]]

\* The sampled swaps: height h, block time t, pool p, amount a of denom din
\* in, amount b of denom dout out.  Every amount is an integer the number
\* format holds exactly, as every amount below 2^53 is in the source.
SwapList ==
    { [h |-> 100, t |-> T1, p |-> Pool1, a |-> 1000000, din |-> UOSMO,
       b |-> 50000, dout |-> ATOM_DENOM],
      [h |-> 100, t |-> T1, p |-> Pool1, a |-> 100000, din |-> ATOM_DENOM,
       b |-> 2000000, dout |-> UOSMO],
      [h |-> 100, t |-> T2, p |-> Pool1, a |-> 2000000, din |-> UOSMO,
       b |-> 50000, dout |-> ATOM_DENOM],
      [h |-> 101, t |-> T2, p |-> Pool1, a |-> 200000, din |-> ATOM_DENOM,
       b |-> 1000000, dout |-> UOSMO],
      [h |-> 101, t |-> T1, p |-> Pool678, a |-> 500000, din |-> USDC_DENOM,
       b |-> 1000000, dout |-> UOSMO],
      [h |-> 101, t |-> T2, p |-> Pool678, a |-> 1000000, din |-> UOSMO,
       b |-> 2000000, dout |-> USDC_DENOM],
      [h |-> 100, t |-> T1, p |-> Pool2, a |-> 250000, din |-> UION,
       b |-> 1000000, dout |-> UOSMO],
      [h |-> 101, t |-> T1, p |-> Pool2, a |-> 100000, din |-> ATOM_DENOM,
       b |-> 4000000, dout |-> UOSMO],
      [h |-> 100, t |-> T2, p |-> Pool678, a |-> 1000000, din |-> USDC_DENOM,
       b |-> 0, dout |-> UOSMO],
      [h |-> 100, t |-> T2, p |-> Pool1, a |-> 1000000, din |-> UOSMO,
       b |-> 0, dout |-> ATOM_DENOM],
      [h |-> 101, t |-> T2, p |-> Pool1, a |-> 1000000, din |-> UOSMO,
       b |-> 1000000, dout |-> USDC_DENOM] }

SwapOf(e) ==
    SwapEvent(e.h, e.t, e.p, Amount(e.a) \o e.din, Amount(e.b) \o e.dout)

\* The event data without the attribute key.
Without(data, key) ==
    [data EXCEPT !.attributes =
        [k \in DOMAIN data.attributes \ {key} |-> data.attributes[k]]]

RequiredAttributes == {"sender", "pool_id", "tokens_in", "tokens_out"}

\* A swap of 100000 ATOM for 2000000 uosmo in pool 1 whose event lacks one
\* of the attributes the handler reads.
MissingEvents ==
    { Without(SwapEvent(101, T1, Pool1, Amount(100000) \o ATOM_DENOM,
                        Amount(2000000) \o UOSMO), key) :
        key \in RequiredAttributes }

\* The events of the sampled swaps, one whose tokens_in carries no amount,
\* which the digit scanner reads as 0, and the events lacking an attribute.
Events ==
    { SwapOf(e) : e \in SwapList }
    \cup { SwapEvent(101, T1, Pool1, UION, Amount(50000) \o ATOM_DENOM) }
    \cup MissingEvents

Init ==
    /\ impl = "graph"
    /\ tokens = <<>> /\ pairs = <<>> /\ swaps = <<>> /\ candles = <<>>
    /\ aborted = FALSE /\ nCalls = 0 /\ applied = <<>>
    /\ lastCall = [op |-> "none"] /\ lastWrites = <<>>
    /\ iv = IvIdle
    /\ tasks = <<>> /\ evs = <<>>

\* The stores before a call, kept with the call for the history.
Before == [tokens |-> tokens, pairs |-> pairs, swaps |-> swaps,
           candles |-> candles]

\* The end of a call that left the store st: its writes are kept, or a
\* failed host call has stopped the runtime and none of them is kept.
Commit(st, call) ==
    /\ lastCall' = call @@ [reads |-> st.reads]
    /\ nCalls' = nCalls + 1
    /\ IF st.trap
       THEN /\ aborted' = TRUE
            /\ lastWrites' = <<>>
            /\ UNCHANGED <<tokens, pairs, swaps, candles, applied>>
       ELSE /\ tokens' = st.tokens /\ pairs' = st.pairs
            /\ swaps' = st.swaps /\ candles' = st.candles
            /\ applied' = st.applied
            /\ lastWrites' = st.writes
            /\ UNCHANGED aborted
    /\ UNCHANGED <<impl, iv, tasks, evs>>

\* One event handled by handleSwap.
HandleSwap ==
    /\ impl = "graph" /\ ~aborted /\ nCalls < MaxEvents
    /\ \E data \in Events :
          Commit(handleSwap(StoreNow, data),
                 [op |-> "handleSwap", data |-> data, before |-> Before])

Next == HandleSwap

Spec == Init /\ [][Next]_vars

----------------------------------------------------------------------------
(* Candle updates called one after another, in either mapping *)

\* Swapped amounts: in a, out b.  One pair has a very small amount out, one
\* has both amounts zero.
CandleTrades ==
    { [a |-> 1000000, b |-> 50000], [a |-> 1000000, b |-> 1000000],
      [a |-> 1000000, b |-> 50], [a |-> 0, b |-> 0] }

\* Two block times within the same second.
T2b == Instant(1, 4, 47, 33, 750)
CandleTimes == {T2, T2b}

BenchSizes == {CANDLE_SIZES[1], CANDLE_SIZES[5]}

BenchPair ==
    [NewPair(UOSMO \o Dash \o ATOM_DENOM \o Dash \o Pool1) EXCEPT
        !.baseAsset = UOSMO, !.quoteAsset = ATOM_DENOM, !.poolId = Pool1]

BenchSwap(tr) == [tokenInAmount |-> tr.a, tokenOutAmount |-> tr.b]

BenchEvent(tr, t) ==
    SwapEvent(100, t, Pool1, Amount(tr.a) \o UOSMO,
              Amount(tr.b) \o ATOM_DENOM)

\* Rates handed to createCandleWithRate.
BenchRates == {Rat(1, 20), Rat(20, 1)}
BenchRatesSQ == {F64(1, 20), F64(20, 1), NaN}

InitCandle ==
    /\ impl \in {"graph", "subql"}
    /\ Idle
    /\ iv = IvIdle

CallCreateCandle ==
    /\ impl = "graph" /\ ~aborted /\ nCalls < MaxTrades
    /\ \E tr \in CandleTrades, t \in CandleTimes, size \in BenchSizes :
          Commit(createCandle(StoreNow, BenchSwap(tr), BenchPair,
                              NewToken(ATOM_DENOM), BenchEvent(tr, t), size),
                 [op |-> "createCandle", trade |-> tr, time |-> t,
                  size |-> size, before |-> Before])

CallCreateCandleSQ ==
    /\ impl = "subql" /\ ~aborted /\ nCalls < MaxTrades
    /\ \E tr \in CandleTrades, t \in CandleTimes, size \in BenchSizes :
          Commit(createCandleSQ(StoreNow, BenchSwap(tr), BenchPair,
                                NewToken(ATOM_DENOM), BenchEvent(tr, t), size),
                 [op |-> "createCandle", trade |-> tr, time |-> t,
                  size |-> size, before |-> Before])

CallCreateCandleWithRate ==
    /\ impl = "graph" /\ ~aborted /\ nCalls < MaxTrades
    /\ \E rate \in BenchRates, size \in BenchSizes :
          Commit(createCandleWithRate(StoreNow, ATOM_DENOM, USDC_DENOM, rate,
                     Rat(0, 1), BenchEvent([a |-> 1, b |-> 1], T2), size),
                 [op |-> "createCandleWithRate", rate |-> rate, time |-> T2,
                  size |-> size, before |-> Before])

CallCreateCandleWithRateSQ ==
    /\ impl = "subql" /\ ~aborted /\ nCalls < MaxTrades
    /\ \E rate \in BenchRatesSQ, size \in BenchSizes :
          Commit(createCandleWithRateSQ(StoreNow, ATOM_DENOM, USDC_DENOM, rate,
                     Rat(0, 1), BenchEvent([a |-> 1, b |-> 1], T2), size),
                 [op |-> "createCandleWithRate", rate |-> rate, time |-> T2,
                  size |-> size, before |-> Before])

NextCandle ==
    \/ CallCreateCandle
    \/ CallCreateCandleSQ
    \/ CallCreateCandleWithRate
    \/ CallCreateCandleWithRateSQ

SpecCandle == InitCandle /\ [][NextCandle]_vars

----------------------------------------------------------------------------
(* createPair called one after another, in either mapping *)

\* A Token entity as createToken leaves it.
BenchToken(denom) ==
    [NewToken(denom) EXCEPT !.name = getName(denom),
                            !.symbol = getSymbol(denom)]

PairDenoms == {UOSMO, ATOM_DENOM, UION}
PairPools == {Pool1, Pool2}

CallCreatePair ==
    /\ impl = "graph" /\ nCalls < MaxPairCalls
    /\ \E A \in PairDenoms, B \in PairDenoms, pool \in PairPools :
          /\ A # B
          /\ Commit(createPair(StoreNow, BenchToken(A), BenchToken(B),
                               pool).st,
                    [op |-> "createPair", A |-> A, B |-> B, pool |-> pool,
                     before |-> Before])

CallCreatePairSQ ==
    /\ impl = "subql" /\ nCalls < MaxPairCalls
    /\ \E A \in PairDenoms, B \in PairDenoms, pool \in PairPools :
          /\ A # B
          /\ Commit(createPairSQ(StoreNow, BenchToken(A), BenchToken(B),
                                 pool).st,
                    [op |-> "createPair", A |-> A, B |-> B, pool |-> pool,
                     before |-> Before])

NextPair ==
    \/ CallCreatePair
    \/ CallCreatePairSQ

SpecPair == InitCandle /\ [][NextPair]_vars

----------------------------------------------------------------------------
(* Candle update claims (SpecCandle) *)

\* C1: after any sequence of candle updates applied to one candle identity,
\* the stored candle satisfies low <= open, low <= close, high >= open and
\* high >= close.
C1_LowHighEncloseOpenClose ==
    \A id \in DOMAIN candles :
        LET c == candles[id]
        IN  /\ NumLe(c.low, c.open) /\ NumLe(c.low, c.close)
            /\ NumLe(c.open, c.high) /\ NumLe(c.close, c.high)

\* The exact sum of the volumes of the trades h[1..i].
RECURSIVE ExactVolume(_, _)
ExactVolume(h, i) ==
    IF i = 0 THEN Rat(0, 1) ELSE RatSum(ExactVolume(h, i - 1), h[i].volume)

\* C2: after any sequence of applyTrade calls to one candle identity, the
\* candle's volume equals the exact sum of all volume deltas applied to it.
C2_VolumeIsExactSum ==
    \A id \in DOMAIN candles :
        candles[id].volume = ExactVolume(applied[id], Len(applied[id]))

\* The candle after the trades h[i..] are applied, in this order, to store st
\* under the identity id.
RECURSIVE Replay(_, _, _, _)
Replay(st, id, h, i) ==
    IF i > Len(h) THEN st.candles[id]
    ELSE LET c == [id |-> id, poolId |-> <<>>, interval |-> <<>>,
                   timestamp |-> 0, base |-> <<>>, quote |-> <<>>,
                   rate |-> h[i].rate, volume |-> h[i].volume,
                   time |-> h[i].time]
         IN  Replay(IF impl = "graph" THEN saveCandle(st, c)
                    ELSE saveCandleSQ(st, c), id, h, i + 1)

\* C3: within one candle identity, high is the maximum and low the minimum of
\* all rates applied, and high, low and volume are the same for every
\* permutation of the order in which the same trades are applied.
C3_HighLowVolumeOrderFree ==
    \A id \in DOMAIN candles :
        LET c == candles[id]
            h == applied[id]
        IN  /\ \A i \in DOMAIN h :
                   NumLe(h[i].rate, c.high) /\ NumLe(c.low, h[i].rate)
            /\ \E i \in DOMAIN h : h[i].rate = c.high
            /\ \E i \in DOMAIN h : h[i].rate = c.low
            /\ \A p \in Permutations(DOMAIN h) :
                   LET r == Replay([StoreNow EXCEPT !.candles = <<>>,
                                                    !.applied = <<>>],
                                   id, [i \in DOMAIN h |-> h[p[i]]], 1)
                   IN  r.high = c.high /\ r.low = c.low /\ r.volume = c.volume

\* The rate and the volume delta of the last call, from its arguments:
\* out amount over in amount, and out amount over 10^6.
LastRate ==
    IF lastCall.op = "createCandleWithRate" THEN lastCall.rate
    ELSE IF impl = "graph" THEN Rat(lastCall.trade.b, lastCall.trade.a)
    ELSE F64Div(F64(lastCall.trade.b, 1), F64(lastCall.trade.a, 1))

LastVolume ==
    IF lastCall.op = "createCandleWithRate" THEN Rat(0, 1)
    ELSE IF impl = "graph" THEN Rat(lastCall.trade.b, 1000000)
    ELSE F64(lastCall.trade.b, 1000000)

\* C4: a candle that has received exactly one trade has open = high = low =
\* close = that trade's rate and volume = that trade's volume delta.
C4_FirstTradeInitializes ==
    /\ \A id \in DOMAIN candles :
           Len(applied[id]) = 1 =>
               LET c == candles[id]
                   e == applied[id][1]
               IN  /\ c.open = e.rate /\ c.high = e.rate
                   /\ c.low = e.rate /\ c.close = e.rate
                   /\ c.volume = e.volume
    /\ \A id \in DOMAIN candles :
           (/\ lastCall.op \in {"createCandle", "createCandleWithRate"}
            /\ ~aborted
            /\ lastWrites = << <<"Candle", id>> >>
            /\ id \notin DOMAIN lastCall.before.candles) =>
               LET c == candles[id]
               IN  /\ c.open = LastRate /\ c.high = LastRate
                   /\ c.low = LastRate /\ c.close = LastRate
                   /\ c.volume = LastVolume

\* A candle has just been created by createCandle from 1000000 in and 50000
\* out, next to a candle that an earlier call created.
C4_Witness ==
    /\ lastCall.op = "createCandle" /\ ~aborted
    /\ lastCall.trade = [a |-> 1000000, b |-> 50000]
    /\ \E id \in DOMAIN candles :
           /\ lastWrites = << <<"Candle", id>> >>
           /\ Len(applied[id]) = 1
           /\ candles[id].open = LastRate
           /\ candles[id].volume = LastVolume
           /\ DOMAIN lastCall.before.candles = DOMAIN candles \ {id}
           /\ lastCall.before.candles # <<>>

\* The resolution with the interval label of a candle.
SizeOf(label) == CHOOSE z \in SizeSet : z.interval = label

\* C7: the bucket start in a candle's identity and timestamp is an integer
\* number of seconds, and two block times inside the same bucket of a
\* resolution (also when they differ only below the second) map to the same
\* candle identity.
C7_SameBucketSameCandle ==
    /\ \A id \in DOMAIN candles :
           IF impl = "graph" THEN candles[id].timestamp \in Nat
           ELSE candles[id].timestamp.d = 1
    /\ \A id1 \in DOMAIN candles, id2 \in DOMAIN candles :
           LET c1 == candles[id1]
               c2 == candles[id2]
               w == resolutionSeconds(SizeOf(c1.interval).timeframe,
                                      SizeOf(c1.interval).divisor) * 1000
           IN  (/\ c1.poolId = c2.poolId /\ c1.quote = c2.quote
                /\ c1.interval = c2.interval
                /\ \E i \in DOMAIN applied[id1], j \in DOMAIN applied[id2] :
                       applied[id1][i].time \div w = applied[id2][j].time \div w)
               => id1 = id2

----------------------------------------------------------------------------
(* Pair claims (SpecPair) *)

\* C8: after every createPair(A, B, pool) call the store holds a forward pair
\* keyed A-B-pool with baseAsset A and quoteAsset B and a reverse pair keyed
\* B-A with baseAsset B and quoteAsset A, and the call made exactly two pair
\* writes, whether or not the pairs already existed.
C8_PairReciprocity ==
    lastCall.op = "createPair" =>
        LET fwd == lastCall.A \o Dash \o lastCall.B \o Dash \o lastCall.pool
            rev == lastCall.B \o Dash \o lastCall.A
        IN  /\ fwd \in DOMAIN pairs /\ rev \in DOMAIN pairs
            /\ pairs[fwd].baseAsset = lastCall.A
            /\ pairs[fwd].quoteAsset = lastCall.B
            /\ pairs[rev].baseAsset = lastCall.B
            /\ pairs[rev].quoteAsset = lastCall.A
            /\ lastWrites = << <<"Pair", fwd>>, <<"Pair", rev>> >>

\* createPair has been called for a forward and a reverse pair that both
\* existed before the call.
C8_Witness ==
    /\ lastCall.op = "createPair"
    /\ (lastCall.A \o Dash \o lastCall.B \o Dash \o lastCall.pool)
           \in DOMAIN lastCall.before.pairs
    /\ (lastCall.B \o Dash \o lastCall.A) \in DOMAIN lastCall.before.pairs
    /\ Len(lastWrites) = 2

----------------------------------------------------------------------------
(* Swap handling claims (Spec) *)

\* The start, in seconds, of the bucket of resolution z holding instant t.
BucketOf(t, z) ==
    LET w == resolutionSeconds(z.timeframe, z.divisor)
    IN  ((t \div 1000) \div w) * w

\* C9: on an empty store, one swap (height h, sender s, pool p, amount a > 0
\* of denom din in, amount b of denom dout out, block time t) leaves
\* Token(din), Token(dout), Pair din-dout-p, Swap h-s with amounts a and b,
\* and for each resolution a candle p-bucketStart(t)-dout-interval with
\* open = high = low = close = b/a and volume = b / 10^6.
C9_FirstSwapOnEmptyStore ==
    (nCalls = 1 /\ lastCall.op = "handleSwap") =>
        \A e \in SwapList :
            (lastCall.data = SwapOf(e) /\ e.a > 0) =>
                LET swapId == IntToString(e.h) \o Dash \o <<"X">>
                IN  /\ ~aborted
                    /\ e.din \in DOMAIN tokens /\ e.dout \in DOMAIN tokens
                    /\ (e.din \o Dash \o e.dout \o Dash \o e.p) \in DOMAIN pairs
                    /\ swapId \in DOMAIN swaps
                    /\ swaps[swapId].tokenInAmount = e.a
                    /\ swaps[swapId].tokenOutAmount = e.b
                    /\ \A z \in SizeSet :
                           LET id == e.p \o Dash
                                     \o IntToString(BucketOf(e.t, z)) \o Dash
                                     \o e.dout \o Dash \o z.interval
                           IN  /\ id \in DOMAIN candles
                               /\ candles[id].open = Rat(e.b, e.a)
                               /\ candles[id].high = Rat(e.b, e.a)
                               /\ candles[id].low = Rat(e.b, e.a)
                               /\ candles[id].close = Rat(e.b, e.a)
                               /\ candles[id].volume = Rat(e.b, 1000000)

\* 1000000uosmo for 50000 ATOM in pool 1 on an empty store: the 1d candle
\* has rate 0.05 and volume 0.05.
C9_Witness ==
    /\ nCalls = 1 /\ lastCall.op = "handleSwap" /\ ~aborted
    /\ lastCall.data = SwapEvent(100, T1, Pool1, Amount(1000000) \o UOSMO,
                                 Amount(50000) \o ATOM_DENOM)
    /\ LET id == Pool1 \o Dash \o IntToString(Instant(1, 0, 0, 0, 0) \div 1000)
                 \o Dash \o ATOM_DENOM \o Dash \o DayLabel
       IN  /\ id \in DOMAIN candles
           /\ candles[id].open = Rat(1, 20)
           /\ candles[id].close = Rat(1, 20)
           /\ candles[id].volume = Rat(1, 20)

\* The candle writes of the last call outside the calc- scope.
RealCandleWrites ==
    SelectSeq(lastWrites,
              LAMBDA w : w[1] = "Candle" /\ SubSeq(w[2], 1, Len(Calc)) # Calc)

\* C10: every swap event updates exactly 8 real candles, one per resolution,
\* with the interval labels 5m, 15m, 30m, 1h, 4h, 8h, 12h, 1d, and the 8
\* updates touch pairwise distinct candle identities.
C10_EightRealCandles ==
    lastCall.op = "handleSwap" =>
        LET ws == RealCandleWrites
        IN  /\ Len(ws) = 8
            /\ \A i, j \in DOMAIN ws : i # j => ws[i][2] # ws[j][2]
            /\ \A i \in DOMAIN ws : ws[i][2] \in DOMAIN candles
            /\ { candles[ws[i][2]].interval : i \in DOMAIN ws }
                   = { <<"5", "m">>, <<"1", "5", "m">>, <<"3", "0", "m">>,
                       <<"1", "h">>, <<"4", "h">>, <<"8", "h">>,
                       <<"1", "2", "h">>, <<"1", "d">> }

----------------------------------------------------------------------------
(* Time Bucketer claims *)

\* A returned bucket start as an instant in milliseconds.
OutMillis(out) == IF impl = "graph" THEN out * 1000 ELSE (out.n * 1000) \div out.d

C6_Idempotent ==
    iv.phase = "refed" => iv.out2 = iv.out

----------------------------------------------------------------------------
(* Denom Extractor test bench: getDenom and extractNumberFromString applied *)
(* to sampled strings                                                        *)

\* mappingHandlers.ts extractNumberFromString: parseInt gives a JS number,
\* which holds the digits only up to its significand.
extractNumberFromStringSQ(input) ==
    LET extractedNumber == ScanNumber(input, 1, <<>>)
    IN  IF extractedNumber # <<>>
        THEN NumberToString(parseFloatInt(ParseInt(extractedNumber)))
        ELSE <<"0">>

\* Amount prefixes: none, digits, digits with leading zeros, letters before
\* the digits, an integer one above a power of two.
AmountSamples ==
    { <<>>, <<"0">>, <<"7">>, <<"1", "2", "3", "4">>, <<"0", "0", "7">>,
      <<"5", "0", "0">>, <<"x", "4", "2">>,
      IntToString(2 * MinSignificand + 1) }

\* Denom suffixes: the known denoms, none, a short one, one of five
\* characters followed by digits, and one holding both "uion" and "ibc".
DenomSamples ==
    { UOSMO, UION, ATOM_DENOM, USDC_DENOM, <<>>, <<"u", "x">>,
      <<"u", "a", "t", "o", "m", "9">>, <<"i", "b", "c", "/", "A">>,
      UION \o <<"i", "b", "c">> }

StringSamples == { a \o d : a \in AmountSamples, d \in DenomSamples }

InitStrings ==
    /\ impl \in {"graph", "subql"}
    /\ Idle
    /\ \E str \in StringSamples : iv = [phase |-> "string", s |-> str]

\* getDenom(tokensSwappedData), the same function in both mappings.
BenchGetDenom ==
    /\ iv.phase = "string"
    /\ iv' = [phase |-> "denom", s |-> iv.s, out |-> getDenom(iv.s)]
    /\ UnchangedStore

BenchExtractNumber ==
    /\ impl = "graph" /\ iv.phase = "string"
    /\ iv' = [phase |-> "number", s |-> iv.s,
              out |-> extractNumberFromString(iv.s)]
    /\ UnchangedStore

BenchExtractNumberSQ ==
    /\ impl = "subql" /\ iv.phase = "string"
    /\ iv' = [phase |-> "number", s |-> iv.s,
              out |-> extractNumberFromStringSQ(iv.s)]
    /\ UnchangedStore

NextStrings ==
    \/ BenchGetDenom
    \/ BenchExtractNumber
    \/ BenchExtractNumberSQ

SpecStrings == InitStrings /\ [][NextStrings]_vars

----------------------------------------------------------------------------
(* mappingHandlers.ts: handleSwap, its awaited calls and the calls it      *)
(* starts without awaiting them                                            *)

\* `${x}` of an object and of undefined.
ObjectString ==
    <<"[", "o", "b", "j", "e", "c", "t", " ", "O", "b", "j", "e", "c", "t",
      "]">>
UndefinedString == <<"u", "n", "d", "e", "f", "i", "n", "e", "d">>

\* Token.create({id, name, denom, symbol})
NewTokenSQ(denom) ==
    [id |-> denom, name |-> getName(denom), symbol |-> getSymbol(denom),
     denom |-> denom, decimals |-> Undefined, priceUSD |-> Undefined]

\* Returns [st, token]; the token is saved only when it is created.
createTokenSQ(st, tokensSwappedData) ==
    LET denom == getDenom(tokensSwappedData)
    IN  IF Has(st.tokens, denom)
        THEN [st |-> st, token |-> st.tokens[denom]]
        ELSE [st |-> [st EXCEPT !.tokens = Put(@, denom, NewTokenSQ(denom)),
                                !.writes = Save(st, "Token", denom)],
              token |-> NewTokenSQ(denom)]

\* Returns [st, swap].  sender and pool_id are read with ?.value, which is
\* undefined when the attribute is absent.
createSwapSQ(st, tokenIn, tokenOut, data) ==
    LET height == data.height
        sender == getAttributeValue(data, "sender")
        poolId == getAttributeValue(data, "pool_id")
        amountIn ==
            extractNumberFromStringSQ(getAttributeValue(data, "tokens_in"))
        amountOut ==
            extractNumberFromStringSQ(getAttributeValue(data, "tokens_out"))
        swapId == IntToString(height) \o Dash
                  \o (IF "sender" \in DOMAIN data.attributes THEN sender
                      ELSE UndefinedString)
        swap == [id |-> swapId,
                 height |-> ParseInt(IntToString(height)),
                 sender |-> sender,
                 poolId |-> poolId,
                 tokenInId |-> tokenIn.denom,
                 tokenInAmount |-> ParseInt(amountIn),
                 tokenOutId |-> tokenOut.denom,
                 tokenOutAmount |-> ParseInt(amountOut)]
    IN  [st |-> [st EXCEPT !.swaps = Put(@, swapId, swap),
                           !.writes = Save(st, "Swap", swapId)],
         swap |-> swap]

\* handleSwap lines 60-75, the calls it awaits: createToken twice,
\* createPair, createSwap.  find(...)!.value of an absent attribute throws.
\* Returns [st, tokenIn, tokenOut, pair, swap], or [st] with st.trap.
handleSwapAwaited(st, data) ==
    IF {"tokens_in", "tokens_out", "pool_id"} \subseteq DOMAIN data.attributes
    THEN The({ The({ The({ The({
            [st |-> r4.st, tokenIn |-> r1.token, tokenOut |-> r2.token,
             pair |-> r3.pair, swap |-> r4.swap]
          : r4 \in { createSwapSQ(r3.st, r1.token, r2.token, data) } })
          : r3 \in { createPairSQ(r2.st, r1.token, r2.token,
                                  getAttributeValue(data, "pool_id")) } })
          : r2 \in { createTokenSQ(r1.st,
                                   getAttributeValue(data, "tokens_out")) } })
          : r1 \in { createTokenSQ(st,
                                   getAttributeValue(data, "tokens_in")) } })
    ELSE [st |-> [st EXCEPT !.trap = TRUE]]

\* The loop calling createCandleWithRate(base, quote, rate, 0.0, ...) for
\* candleSizes[i..], each call run to its end.
RECURSIVE withRateFromSQ(_, _, _, _, _, _, _)
withRateFromSQ(st, baseDenom, quoteDenom, rate, data, sizes, i) ==
    IF i > Len(sizes) THEN st
    ELSE withRateFromSQ(
             createCandleWithRateSQ(st, baseDenom, quoteDenom, rate,
                                    Rat(0, 1), data, sizes[i]),
             baseDenom, quoteDenom, rate, data, sizes, i + 1)

\* createUSDCCandles from the result of its first Candle.get to its end, for
\* a tokenIn that is not USDC.  The first key interpolates the pool_id
\* attribute itself, not its value.
createUSDCCandles(st, tokenIn, data, candleSizes) ==
    LET dayCandleTime == getIntervalSQ(Rat(data.time, 1), "day", 1)
        day == NumberToString(dayCandleTime)
        id1 == ObjectString \o Dash \o day \o Dash \o UOSMO \o Dash
               \o DayLabel
        id2 == IntToString(USDC_OSMO_POOL) \o Dash \o day \o Dash \o UOSMO
               \o Dash \o DayLabel
    IN  IF ~Has(st.candles, id1) THEN Load(st, id1)
        ELSE IF ~Has(st.candles, id2) THEN Load(Load(st, id1), id2)
        ELSE The({ The({
                withRateFromSQ(
                    withRateFromSQ(st1, tokenIn.denom, USDC_DENOM, price,
                                   data, candleSizes, 1),
                    USDC_DENOM, tokenIn.denom, F64Div(F64(1, 1), price),
                    data, candleSizes, 1)
              : st1 \in { [Load(Load(st, id1), id2) EXCEPT
                             !.tokens = Put(@, tokenIn.denom,
                                 [tokenIn EXCEPT !.priceUSD = price]),
                             !.writes = Append(@, <<"Token", tokenIn.denom>>)]
                        } })
              : price \in { F64Mul(st.candles[id1].close,
                                   st.candles[id2].close) } })

\* The resolutions the handler is run with.  handleSwap passes CANDLE_SIZES;
\* the calls for different resolutions touch different candles, and two of
\* the eight keep the interleavings of the pending calls countable.
AsyncSizes == <<CANDLE_SIZES[1], CANDLE_SIZES[8]>>

\* The calls handleSwap starts and does not await (lines 78 and 81), each
\* stopped at its first await: Candle.get of createCandle for every size, and
\* Candle.get of createUSDCCandles unless tokenIn is USDC.
Started(k, r, data, sizes) ==
    [i \in 1..Len(sizes) |->
        [ev |-> k, fn |-> "createCandle", pc |-> "get",
         c |-> newCandleSQ(r.swap, r.pair, r.tokenOut, data, sizes[i])]]
    \o (IF r.tokenIn.symbol # SymUSDC
        THEN << [ev |-> k, fn |-> "createUSDCCandles", pc |-> "get",
                 tokenIn |-> r.tokenIn, data |-> data] >>
        ELSE <<>>)

\* History of an event admitted: what it stored, and what its calls did
\* after handleSwap had returned.
NewEvent(data, r) ==
    [data |-> data, failed |-> FALSE,
     tokenIn |-> r.tokenIn.denom, tokenOut |-> r.tokenOut.denom,
     pair |-> r.pair.id, swap |-> r.swap.id,
     realSaves |-> 0, calcSaves |-> 0, lookups |-> <<>>,
     afterReturn |-> FALSE, afterNext |-> FALSE]

\* History of an event whose handleSwap threw: nothing of it is stored.
FailedEvent(data) ==
    [data |-> data, failed |-> TRUE,
     tokenIn |-> Undefined, tokenOut |-> Undefined,
     pair |-> Undefined, swap |-> Undefined,
     realSaves |-> 0, calcSaves |-> 0, lookups |-> <<>>,
     afterReturn |-> FALSE, afterNext |-> FALSE]

\* A store write of event k made now: after its handleSwap returned, and
\* after the store operations of event k + 1 if that one has been admitted.
OpBy(k) ==
    [evs EXCEPT ![k].afterReturn = TRUE,
                ![k].afterNext = @ \/ Len(evs) > k]

Done(task) == [ev |-> task.ev, fn |-> task.fn, pc |-> "done"]

\* The swap events handled by the SubQuery mapping: two swaps of uosmo for
\* ATOM and one of ATOM for uosmo in pool 1 at the same block time, a swap
\* of USDC for uosmo in pool 678, and the events lacking the sender or the
\* pool_id attribute.
AsyncEvents ==
    { SwapEvent(100, T1, Pool1, Amount(1000000) \o UOSMO,
                Amount(50000) \o ATOM_DENOM),
      SwapEvent(101, T1, Pool1, Amount(2000000) \o UOSMO,
                Amount(50000) \o ATOM_DENOM),
      SwapEvent(101, T1, Pool1, Amount(100000) \o ATOM_DENOM,
                Amount(2000000) \o UOSMO),
      SwapEvent(101, T1, Pool678, Amount(500000) \o USDC_DENOM,
                Amount(1000000) \o UOSMO) }
    \cup { data \in MissingEvents :
               {"tokens_in", "tokens_out"} \subseteq DOMAIN data.attributes }

\* The runtime calls handleSwap for the next event once the promise of the
\* previous call has resolved: the awaited calls run, the calls not awaited
\* are started, handleSwap returns.  A throw rejects the promise and stops
\* the runtime.
HandleSwapSQ ==
    /\ impl = "subql" /\ ~aborted /\ Len(evs) < MaxEvents
    /\ \E data \in AsyncEvents :
       \E r \in { handleSwapAwaited(StoreNow, data) } :
          /\ lastCall' = [op |-> "handleSwap", data |-> data]
          /\ nCalls' = nCalls + 1
          /\ IF r.st.trap
             THEN /\ aborted' = TRUE
                  /\ lastWrites' = <<>>
                  /\ evs' = Append(evs, FailedEvent(data))
                  /\ UNCHANGED <<tokens, pairs, swaps, tasks>>
             ELSE /\ tokens' = r.st.tokens /\ pairs' = r.st.pairs
                  /\ swaps' = r.st.swaps
                  /\ lastWrites' = r.st.writes
                  /\ evs' = Append(evs, NewEvent(data, r))
                  /\ tasks' = tasks \o Started(Len(evs) + 1, r, data,
                                               AsyncSizes)
                  /\ UNCHANGED aborted
          /\ UNCHANGED <<impl, candles, applied, iv>>

\* createCandle line 223: Candle.get resolves with the candle stored now,
\* or with nothing.
CandleGet ==
    /\ impl = "subql" /\ ~aborted
    /\ \E i \in DOMAIN tasks :
          /\ tasks[i].fn = "createCandle" /\ tasks[i].pc = "get"
          /\ tasks' = [tasks EXCEPT ![i] =
                 [ev |-> @.ev, fn |-> @.fn, pc |-> "save", c |-> @.c,
                  loaded |-> IF Has(candles, @.c.id)
                             THEN <<candles[@.c.id]>> ELSE <<>>]]
    /\ UNCHANGED <<impl, tokens, pairs, swaps, candles, aborted, nCalls,
                   applied, lastCall, lastWrites, iv, evs>>

\* The candle store as the call saw it: the candle it loaded in the place
\* of the one stored now.
Seen(task) ==
    IF task.loaded = <<>>
    THEN [x \in DOMAIN candles \ {task.c.id} |-> candles[x]]
    ELSE Put(candles, task.c.id, task.loaded[1])

\* createCandle lines 224-248: the candle is created or updated from what
\* was loaded, and saved.
CandleSave ==
    /\ impl = "subql" /\ ~aborted
    /\ \E i \in DOMAIN tasks :
          /\ tasks[i].fn = "createCandle" /\ tasks[i].pc = "save"
          /\ \E st \in { saveCandleSQ([StoreNow EXCEPT
                                          !.candles = Seen(tasks[i])],
                                      tasks[i].c) } :
                /\ candles' = st.candles
                /\ applied' = st.applied
          /\ tasks' = [tasks EXCEPT ![i] = Done(@)]
          /\ evs' = [OpBy(tasks[i].ev) EXCEPT ![tasks[i].ev].realSaves = @ + 1]
    /\ UNCHANGED <<impl, tokens, pairs, swaps, aborted, nCalls, lastCall,
                   lastWrites, iv>>

\* The daily candles {pool_id}-{day}-uosmo-1d of the event's pool and
\* 678-{day}-uosmo-1d are both stored now.
DailyLegsStored(data) ==
    LET day == NumberToString(getIntervalSQ(Rat(data.time, 1), "day", 1))
        tail == Dash \o day \o Dash \o UOSMO \o Dash \o DayLabel
    IN  /\ Has(candles, getAttributeValue(data, "pool_id") \o tail)
        /\ Has(candles, IntToString(USDC_OSMO_POOL) \o tail)

\* The lookups of a call, each with the number of real candles its own
\* event had saved before and whether both daily candles were stored then.
LookupsOf(st, k) ==
    [j \in DOMAIN st.reads |->
        [id |-> st.reads[j].id, found |-> st.reads[j].found,
         real |-> evs[k].realSaves, legs |-> DailyLegsStored(evs[k].data)]]

\* createUSDCCandles resumes from its first Candle.get (line 129) and runs
\* to its end.
UsdcResume ==
    /\ impl = "subql" /\ ~aborted
    /\ \E i \in DOMAIN tasks :
          /\ tasks[i].fn = "createUSDCCandles" /\ tasks[i].pc = "get"
          /\ \E st \in { createUSDCCandles(StoreNow, tasks[i].tokenIn,
                                           tasks[i].data, AsyncSizes) } :
                /\ tokens' = st.tokens
                /\ candles' = st.candles
                /\ applied' = st.applied
                /\ evs' = [(IF st.writes = <<>> THEN evs
                             ELSE OpBy(tasks[i].ev)) EXCEPT
                             ![tasks[i].ev].lookups =
                                 @ \o LookupsOf(st, tasks[i].ev),
                             ![tasks[i].ev].calcSaves =
                                 @ + Len(SelectSeq(st.writes,
                                       LAMBDA w : w[1] = "Candle"))]
          /\ tasks' = [tasks EXCEPT ![i] = Done(@)]
    /\ UNCHANGED <<impl, pairs, swaps, aborted, nCalls, lastCall, lastWrites,
                   iv>>

InitSwap ==
    /\ impl \in {"graph", "subql"}
    /\ Idle
    /\ iv = IvIdle

NextSwap ==
    \/ HandleSwap
    \/ HandleSwapSQ
    \/ CandleGet
    \/ CandleSave
    \/ UsdcResume

SpecSwap == InitSwap /\ [][NextSwap]_vars

----------------------------------------------------------------------------
(* Denom Extractor claims (SpecStrings) *)

\* The last k characters of s, all of s when it has fewer.
LastChars(s, k) ==
    IF Len(s) <= k THEN s ELSE [i \in 1..k |-> s[Len(s) - k + i]]

Contains(s, sub) ==
    \E i \in 0..(Len(s) - Len(sub)) :
        \A j \in 1..Len(sub) : s[i + j] = sub[j]

\* C16: getDenom returns the denom suffix of an <amount><denom> string: the
\* last 68 characters if the string contains "ibc", else the last 4 if it
\* contains "uion", else the last 5; "1234uosmo" gives "uosmo", and an
\* amount followed by a 68-character ibc/ denom gives exactly that denom.
C16_DenomIsFixedWidthSuffix ==
    iv.phase = "denom" =>
        /\ iv.out = LastChars(iv.s,
                        IF Contains(iv.s, <<"i", "b", "c">>) THEN 68
                        ELSE IF Contains(iv.s, <<"u", "i", "o", "n">>) THEN 4
                        ELSE 5)
        /\ iv.s = <<"1", "2", "3", "4", "u", "o", "s", "m", "o">>
               => iv.out = <<"u", "o", "s", "m", "o">>
        /\ \A a \in AmountSamples, d \in {ATOM_DENOM, USDC_DENOM} :
               (iv.s = a \o d /\ Len(d) = 68) => iv.out = d

\* getDenom has returned "uion" for "500uion".
C16_Witness ==
    /\ iv.phase = "denom"
    /\ iv.s = <<"5", "0", "0", "u", "i", "o", "n">>
    /\ iv.out = <<"u", "i", "o", "n">>

\* The digits of s from the first digit up to the next character that is
\* not a digit.
RECURSIVE FirstDigitRun(_)
FirstDigitRun(s) ==
    IF s = <<>> THEN <<>>
    ELSE IF ~IsDigit(Head(s)) THEN FirstDigitRun(Tail(s))
    ELSE IF Len(s) = 1 \/ ~IsDigit(s[2]) THEN <<Head(s)>>
    ELSE <<Head(s)>> \o FirstDigitRun(Tail(s))

\* C17: extractNumberFromString returns the digits accumulated from the
\* first digit up to the first non-digit after it, as a string, or "0" if
\* the string has no digit: "1234uosmo" gives "1234", "uosmo" and "" give
\* "0".
C17_ReturnsAccumulatedDigits ==
    iv.phase = "number" =>
        /\ iv.out = IF FirstDigitRun(iv.s) = <<>> THEN <<"0">>
                    ELSE FirstDigitRun(iv.s)
        /\ iv.s = <<"1", "2", "3", "4", "u", "o", "s", "m", "o">>
               => iv.out = <<"1", "2", "3", "4">>
        /\ iv.s \in {<<"u", "o", "s", "m", "o">>, <<>>} => iv.out = <<"0">>

----------------------------------------------------------------------------
(* Price composition claims (Spec) *)

IsCalc(id) == Len(id) >= Len(Calc) /\ SubSeq(id, 1, Len(Calc)) = Calc

\* The candle writes of the last call inside the calc- scope.
CalcWrites ==
    SelectSeq(lastWrites, LAMBDA w : w[1] = "Candle" /\ IsCalc(w[2]))

\* The last event was handled to its end and both daily candles were found.
Composed ==
    /\ lastCall.op = "handleSwap" /\ ~aborted
    /\ Len(lastCall.reads) = 2
    /\ \A i \in 1..2 : lastCall.reads[i].found

\* The identity calc-{base}-{bucketStart(t)}-{quote}-{interval}.
CalcId(base, t, quote, z) ==
    Calc \o base \o Dash \o IntToString(BucketOf(t, z)) \o Dash \o quote
    \o Dash \o z.interval

\* The exact product of two prices.
Product(x, y) == Rat(x.n * y.n, x.d * y.d)

\* The closes of the two daily candles looked up, multiplied.
ComposedPrice ==
    Product(candles[lastCall.reads[1].id].close,
            candles[lastCall.reads[2].id].close)

\* C14: the composed USD price is the product of two closes: of a daily
\* candle whose base is the token being priced and whose quote is OSMO, and
\* of a daily candle whose base is OSMO and whose quote is USDC, both read at
\* the day bucket of the event's block time.
C14_ComposedFromBaseQuoteCandles ==
    Composed =>
        \E i, j \in 1..2 :
            LET c1 == candles[lastCall.reads[i].id]
                c2 == candles[lastCall.reads[j].id]
                day == BucketOf(lastCall.data.time, CANDLE_SIZES[8])
                calc == CalcId(ATOM_DENOM, lastCall.data.time, USDC_DENOM,
                               CANDLE_SIZES[8])
            IN  /\ i # j
                /\ c1.base = ATOM_DENOM /\ c1.quote = UOSMO
                /\ c2.base = UOSMO /\ c2.quote = USDC_DENOM
                /\ c1.interval = DayLabel /\ c2.interval = DayLabel
                /\ c1.timestamp = day /\ c2.timestamp = day
                /\ calc \in DOMAIN candles
                /\ candles[calc].close = Product(c1.close, c2.close)

\* C15: every candle in the calc- scope has volume 0 in every reachable
\* state, and an event that composes a price updates, for each of the 8
\* resolutions, the candle calc-{token}-{bucket}-{USDC}-{interval} with the
\* composed price and the candle calc-{USDC}-{bucket}-{token}-{interval}
\* with its inverse: 16 candle updates.
C15_SyntheticCandlesPricingOnly ==
    /\ \A id \in DOMAIN candles : IsCalc(id) => candles[id].volume = Rat(0, 1)
    /\ Composed =>
           LET p == ComposedPrice
               t == lastCall.data.time
           IN  /\ Len(CalcWrites) = 16
               /\ \A z \in SizeSet :
                      LET fwd == CalcId(ATOM_DENOM, t, USDC_DENOM, z)
                          inv == CalcId(USDC_DENOM, t, ATOM_DENOM, z)
                      IN  /\ \E k \in 1..16 : CalcWrites[k][2] = fwd
                          /\ \E k \in 1..16 : CalcWrites[k][2] = inv
                          /\ candles[fwd].close = p
                          /\ candles[inv].close = Rat(p.d, p.n)
                          /\ Applied(applied, fwd)[Len(applied[fwd])].rate = p
                          /\ Applied(applied, inv)[Len(applied[inv])].rate
                                 = Rat(p.d, p.n)

\* A swap of ATOM for uosmo in pool 1 has composed the price 20 * 2 = 40
\* from its own daily candle and the daily candle of an earlier swap in pool
\* 678: the 1d candles of both directions carry 40 and 1/40.
C15_Witness ==
    /\ Composed /\ nCalls = 2
    /\ ComposedPrice = Rat(40, 1)
    /\ Len(CalcWrites) = 16
    /\ LET fwd == CalcId(ATOM_DENOM, lastCall.data.time, USDC_DENOM,
                         CANDLE_SIZES[8])
           inv == CalcId(USDC_DENOM, lastCall.data.time, ATOM_DENOM,
                         CANDLE_SIZES[8])
       IN  /\ candles[fwd].close = Rat(40, 1) /\ candles[fwd].volume = Rat(0, 1)
           /\ candles[inv].close = Rat(1, 40) /\ candles[inv].volume = Rat(0, 1)

----------------------------------------------------------------------------
(* Event handling claims (SpecSwap) *)

\* The calls of event k that have not run to their end.
Pending(k) == { i \in DOMAIN tasks : tasks[i].ev = k /\ tasks[i].pc # "done" }

\* C11: each swap event is processed to completion before the next one is
\* admitted: once handleSwap for event k has returned, every store read and
\* write of event k has happened (no write of event k is made later), so no
\* store operation of event k occurs after a store operation of event k + 1.
C11_EventRunsToCompletion ==
    \A k \in DOMAIN evs :
        ~evs[k].failed => ~evs[k].afterReturn /\ ~evs[k].afterNext

\* C12: no read-modify-write race on a candle: every load observes the saves
\* made before it, so each stored candle is what its trades give when they
\* are applied one after another: the volume holds every contribution and
\* high and low account for every rate.
C12_NoLostCandleUpdate ==
    \A id \in DOMAIN candles :
        LET r == Replay([StoreNow EXCEPT !.candles = <<>>, !.applied = <<>>],
                        id, applied[id], 1)
        IN  /\ candles[id].volume = r.volume
            /\ candles[id].high = r.high
            /\ candles[id].low = r.low

\* The real candle writes required of one event: 8 in mapping.ts, one per
\* resolution the handler was run with in mappingHandlers.ts.
RealCandlesPerEvent == IF impl = "graph" THEN 8 ELSE Len(AsyncSizes)

C18_MissingAttributeIsFatal ==
    /\ (/\ impl = "graph" /\ lastCall.op = "handleSwap"
        /\ ~(RequiredAttributes \subseteq DOMAIN lastCall.data.attributes)) =>
           aborted /\ lastWrites = <<>>
    /\ \A k \in DOMAIN evs :
           ~(RequiredAttributes \subseteq DOMAIN evs[k].data.attributes) =>
               evs[k].failed /\ aborted

\* C19: for every candle identity, open is the rate of the first trade
\* processed for it and close is the rate of the trade processed last.
C19_OpenFirstCloseLast ==
    \A id \in DOMAIN candles :
        /\ candles[id].open = applied[id][1].rate
        /\ candles[id].close = applied[id][Len(applied[id])].rate

\* C20: the lookup of the daily candles made for an event observes the
\* store with all of that event's own real candle writes, its 1d candle
\* among them.
C20_OracleAfterOwnCandles ==
    /\ (impl = "graph" /\ lastCall.op = "handleSwap") =>
           \A i \in DOMAIN lastCall.reads :
               lastCall.reads[i].real = RealCandlesPerEvent
    /\ \A k \in DOMAIN evs :
           ~evs[k].failed =>
               \A i \in DOMAIN evs[k].lookups :
                   evs[k].lookups[i].real = RealCandlesPerEvent

----------------------------------------------------------------------------
(* TheGraph: three swap events on the pools and pairs of the price         *)
(* composition                                                            *)

MaxOracleEvents == 3

\* Swaps of one day: ATOM for uosmo and uosmo for ATOM in pool 1, uosmo for
\* USDC and USDC for uosmo in pool 678, uosmo for USDC in pool 1, uion for
\* uosmo and ATOM for uosmo in pool 2, which is not whitelisted, and uion
\* for uosmo in pool 678.
OracleEvents ==
    { SwapOf(e) : e \in
        { x \in SwapList :
            \/ x.p = Pool1 /\ x.din = ATOM_DENOM /\ x.t = T1
            \/ x.p = Pool1 /\ x.din = UOSMO /\ x.t = T1
            \/ x.p = Pool1 /\ x.dout = USDC_DENOM
            \/ x.p = Pool678 /\ x.b > 0
            \/ x.p = Pool2 } }
    \cup { SwapEvent(100, T1, Pool678, Amount(250000) \o UION,
                     Amount(1000000) \o UOSMO) }

\* One event handled by handleSwap.
HandleOracleSwap ==
    /\ impl = "graph" /\ ~aborted /\ nCalls < MaxOracleEvents
    /\ \E data \in OracleEvents :
          Commit(handleSwap(StoreNow, data),
                 [op |-> "handleSwap", data |-> data, before |-> Before])

NextOracle == HandleOracleSwap

SpecOracle == Init /\ [][NextOracle]_vars

----------------------------------------------------------------------------
(* Whitelisted-pool composition claims (SpecOracle) *)

\* The symbols of the two tokens of an event.
SymbolsOf(data) ==
    { getSymbol(getDenom(getAttributeValue(data, "tokens_in"))),
      getSymbol(getDenom(getAttributeValue(data, "tokens_out"))) }

\* The identity {pool}-{day(t)}-{quote}-1d of a real daily candle.
DayId(pool, t, quote) ==
    pool \o Dash \o IntToString(BucketOf(t, CANDLE_SIZES[8])) \o Dash \o quote
    \o Dash \o DayLabel

\* The last call wrote the calc-ATOM-USDC and the calc-USDC-ATOM candle of
\* every one of the 8 resolutions, 16 candle writes.
WroteAtomUsdc ==
    /\ Len(CalcWrites) = 16
    /\ \A z \in SizeSet :
           /\ \E k \in 1..16 : CalcWrites[k][2] =
                  CalcId(ATOM_DENOM, lastCall.data.time, USDC_DENOM, z)
           /\ \E k \in 1..16 : CalcWrites[k][2] =
                  CalcId(USDC_DENOM, lastCall.data.time, ATOM_DENOM, z)

\* C21: a swap in an allow-listed pool whose pair is exactly {OSMO, USDC},
\* handled in a state where the day's real 1d candle of that pool quoted in
\* USDC and the day's real 1d candle 1-{day}-uosmo-1d of pool 1 both exist,
\* updates the calc-ATOM-USDC and calc-USDC-ATOM candles at all 8
\* resolutions.
C21_OsmoUsdcLegRefreshes ==
    (/\ lastCall.op = "handleSwap"
     /\ getAttributeValue(lastCall.data, "pool_id") \in WHITELISTED_POOLS
     /\ SymbolsOf(lastCall.data) = {SymOSMO, SymUSDC}
     /\ DayId(getAttributeValue(lastCall.data, "pool_id"),
              lastCall.data.time, USDC_DENOM)
            \in DOMAIN lastCall.before.candles
     /\ DayId(Pool1, lastCall.data.time, UOSMO)
            \in DOMAIN lastCall.before.candles) =>
        ~aborted /\ WroteAtomUsdc

----------------------------------------------------------------------------
(* General-form composition claims (SpecSwap) *)

\* C22: a swap whose tokenIn is not USDC, whose lookup is made in a state
\* where the daily candle {pool_id}-{day}-uosmo-1d of its pool and the daily
\* candle 678-{day}-uosmo-1d both exist, sets tokenIn's priceUSD and updates
\* the tokenIn-USDC and the USDC-tokenIn calc- candle of every resolution
\* the handler was run with.
C22_GeneralComposerPrices ==
    \A k \in DOMAIN evs :
        (/\ ~evs[k].failed
         /\ getSymbol(evs[k].tokenIn) # SymUSDC
         /\ Pending(k) = {}
         /\ \E i \in DOMAIN evs[k].lookups : evs[k].lookups[i].legs) =>
            /\ tokens[evs[k].tokenIn].priceUSD # Undefined
            /\ evs[k].calcSaves = 2 * Len(AsyncSizes)
            /\ \E id \in DOMAIN candles : IsCalc(id)

----------------------------------------------------------------------------
(* Gating claims (SpecOracle) *)

\* The last event is in an allow-listed pool and its token symbols are
\* exactly {ATOM, OSMO} or {OSMO, USDC}.
Gated ==
    /\ getAttributeValue(lastCall.data, "pool_id") \in {<<"1">>, <<"6", "7", "8">>}
    /\ \/ SymbolsOf(lastCall.data) = {SymATOM, SymOSMO}
       \/ SymbolsOf(lastCall.data) = {SymOSMO, SymUSDC}

\* The candles in the calc- scope of a candle store.
CalcCandles(store) ==
    [id \in { x \in DOMAIN store : IsCalc(x) } |-> store[id]]

\* C23: a calc- candle is created or updated only by an event whose pool_id
\* is in the allow-list {"1", "678"} and whose in/out token symbols are
\* exactly {ATOM, OSMO} or {OSMO, USDC}; every other event writes no calc-
\* candle and leaves all calc- candles as they were.
C23_CalcOnlyWhenGated ==
    lastCall.op = "handleSwap" =>
        /\ (\/ CalcWrites # <<>>
            \/ CalcCandles(candles) # CalcCandles(lastCall.before.candles))
               => Gated
        /\ ~Gated => /\ CalcWrites = <<>>
                     /\ CalcCandles(candles)
                            = CalcCandles(lastCall.before.candles)

\* After an event that composed a price, an event outside the gate (pool 2,
\* or a pair with uion) has been handled: the calc- candles exist and are
\* the ones stored before it.
C23_Witness ==
    /\ lastCall.op = "handleSwap" /\ ~aborted /\ nCalls = 3
    /\ ~Gated
    /\ Len(lastWrites) = 13
    /\ DOMAIN CalcCandles(lastCall.before.candles) # {}
    /\ CalcCandles(candles) = CalcCandles(lastCall.before.candles)

----------------------------------------------------------------------------
(* Pair overwrite claims (SpecPair) *)

\* The fields a pair of base b and quote q in pool p holds when they are
\* derived from the arguments of a createPair call.
PairFields(b, q, p) ==
    [symbol |-> getSymbol(b) \o Dash \o getSymbol(q),
     name |-> getName(b) \o <<" ", "-", " ">> \o getName(q),
     baseAsset |-> b, quoteAsset |-> q, poolId |-> p]

\* C24: after every createPair(base, quote, poolId) call, the forward pair
\* and the reverse pair both hold symbol, name, baseAsset, quoteAsset and
\* poolId derived from that call's arguments, even if the pair existed before
\* with other values.
C24_PairFieldsOverwritten ==
    lastCall.op = "createPair" =>
        LET fwd == lastCall.A \o Dash \o lastCall.B \o Dash \o lastCall.pool
            rev == lastCall.B \o Dash \o lastCall.A
            want(b, q) == PairFields(b, q, lastCall.pool)
        IN  /\ fwd \in DOMAIN pairs /\ rev \in DOMAIN pairs
            /\ \A f \in DOMAIN want(lastCall.A, lastCall.B) :
                   /\ pairs[fwd][f] = want(lastCall.A, lastCall.B)[f]
                   /\ pairs[rev][f] = want(lastCall.B, lastCall.A)[f]

----------------------------------------------------------------------------
(* Swap record claims (SpecSwap) *)

\* C25: a Swap record is immutable once written: no step of any later event
\* removes it or changes its height, sender, poolId, token references or
\* amounts.
C25_SwapImmutable ==
    [][\A id \in DOMAIN swaps :
           id \in DOMAIN swaps' /\ swaps'[id] = swaps[id]]_vars

----------------------------------------------------------------------------
(* Candle identity claims (Spec) *)

\* C26: every trade aggregated into a real candle has the base denom stored
\* in the candle's base field and the quote denom stored in its quote field:
\* a real candle never mixes rates of swaps with different tokenIn denoms.
C26_CandleTradesShareBaseQuote ==
    \A id \in DOMAIN candles :
        ~IsCalc(id) =>
            \A i \in DOMAIN applied[id] :
                /\ applied[id][i].base = candles[id].base
                /\ applied[id][i].quote = candles[id].quote

----------------------------------------------------------------------------
(* TheGraph: swap events at block times in and across the buckets of the    *)
(* resolutions                                                             *)

MaxNestEvents == 3

\* Block times: 00:04:10 of day 1, in the 5m bucket of T1, and 00:01:00 of
\* day 2.
T1b == Instant(1, 0, 4, 10, 0)
T3 == Instant(2, 0, 1, 0, 0)

\* Swaps of uosmo for ATOM in pool 1 at T1, T1b, T2 and T3, at the rates
\* 0.05, 0.025, 0.2 and 0.0125, and swaps of ATOM for uosmo in pool 1 at T2
\* and in pool 2 at T1.
NestEvents ==
    { SwapEvent(100, T1, Pool1, Amount(1000000) \o UOSMO,
                Amount(50000) \o ATOM_DENOM),
      SwapEvent(101, T1b, Pool1, Amount(2000000) \o UOSMO,
                Amount(50000) \o ATOM_DENOM),
      SwapEvent(102, T2, Pool1, Amount(1000000) \o UOSMO,
                Amount(200000) \o ATOM_DENOM),
      SwapEvent(103, T3, Pool1, Amount(4000000) \o UOSMO,
                Amount(50000) \o ATOM_DENOM),
      SwapEvent(102, T2, Pool1, Amount(200000) \o ATOM_DENOM,
                Amount(1000000) \o UOSMO),
      SwapEvent(100, T1, Pool2, Amount(100000) \o ATOM_DENOM,
                Amount(4000000) \o UOSMO) }

\* One event handled by handleSwap.
HandleNestSwap ==
    /\ impl = "graph" /\ ~aborted /\ nCalls < MaxNestEvents
    /\ \E data \in NestEvents :
          Commit(handleSwap(StoreNow, data),
                 [op |-> "handleSwap", data |-> data, before |-> Before])

NextNest == HandleNestSwap

SpecNest == Init /\ [][NextNest]_vars

----------------------------------------------------------------------------
(* Cross-resolution claims (SpecNest) *)

\* Width in seconds of the bucket of a candle.
WidthOf(c) ==
    resolutionSeconds(SizeOf(c.interval).timeframe,
                      SizeOf(c.interval).divisor)

\* The buckets of the finer resolution z nest in those of candle c: both
\* start at multiples of their width counted from the start of the UTC day.
NestsIn(z, c) ==
    /\ resolutionSeconds(z.timeframe, z.divisor) < WidthOf(c)
    /\ WidthOf(c) % resolutionSeconds(z.timeframe, z.divisor) = 0

\* The candles of resolution z with the pool and quote denom of candle c
\* whose bucket starts lie in the bucket of c.
FinerCandles(c, z) ==
    { id \in DOMAIN candles :
        /\ candles[id].poolId = c.poolId
        /\ candles[id].quote = c.quote
        /\ candles[id].interval = z.interval
        /\ candles[id].timestamp >= c.timestamp
        /\ candles[id].timestamp < c.timestamp + WidthOf(c) }

\* The exact sum of the volumes of the candles in S.
RECURSIVE VolumeSum(_)
VolumeSum(S) ==
    IF S = {} THEN Rat(0, 1)
    ELSE LET id == CHOOSE x \in S : TRUE
         IN  RatSum(candles[id].volume, VolumeSum(S \ {id}))

\* C27: after any sequence of swap events handled one after another, every
\* real candle of a coarser resolution has, for every finer resolution whose
\* buckets nest in it, volume equal to the sum of the volumes of the finer
\* candles of its pool and quote denom whose bucket starts lie in its bucket,
\* high equal to the maximum of their highs and low equal to the minimum of
\* their lows; so for the 1d candle of a day and its 5m candles.
C27_ResolutionsConsistent ==
    \A cid \in DOMAIN candles :
        ~IsCalc(cid) =>
            \A z \in SizeSet :
                NestsIn(z, candles[cid]) =>
                    LET c == candles[cid]
                        S == FinerCandles(c, z)
                    IN  /\ S # {}
                        /\ c.volume = VolumeSum(S)
                        /\ \A id \in S : /\ NumLe(candles[id].high, c.high)
                                         /\ NumLe(c.low, candles[id].low)
                        /\ \E id \in S : candles[id].high = c.high
                        /\ \E id \in S : candles[id].low = c.low

\* Three swaps of uosmo for ATOM in pool 1, at 00:03:00 and 04:47:33 of day
\* 1 and at 00:01:00 of day 2: the 1d candle of day 1 holds the two 5m
\* candles of day 1, volume 0.05 + 0.2, high 0.2, low 0.05, and not the 5m
\* candle of day 2.
C27_Witness ==
    /\ nCalls = 3 /\ ~aborted
    /\ LET d1 == DayId(Pool1, T1, ATOM_DENOM)
           d2 == DayId(Pool1, T3, ATOM_DENOM)
       IN  /\ d1 \in DOMAIN candles /\ d2 \in DOMAIN candles
           /\ Cardinality(FinerCandles(candles[d1], CANDLE_SIZES[1])) = 2
           /\ Cardinality(FinerCandles(candles[d2], CANDLE_SIZES[1])) = 1
           /\ candles[d1].volume = Rat(1, 4)
           /\ candles[d1].high = Rat(1, 5)
           /\ candles[d1].low = Rat(1, 20)

=============================================================================
